---- MODULE Spec2Model ----
(***************************************************************************)
(* opennaturemap: the Overpass fetch client (api/extractors.py) and the    *)
(* gridded import crawl (api/management/commands/import_nature_reserves.py)*)
(* as state machines.                                                      *)
(*                                                                         *)
(*   Spec      - ServerManager + OSMNatureReserveExtractor.query_overpass: *)
(*               one action per call and one per HTTP request, the         *)
(*               remote's answer being the input of the request.           *)
(*   SpecCrawl - Command.handle of import_nature_reserves: one action per  *)
(*               run start, per tile, and for the summary; the outcome of  *)
(*               extractor.extract() is the input of the tile step.        *)
(***************************************************************************)
EXTENDS Integers, Sequences, FiniteSets, TLC

\* ------------------------------------------------------------------ bounds
\* Longest endpoint list a ServerManager is constructed with.
MaxServers == 2
\* Hours the clock of the crawl runs for.
MaxClock == 2
\* Most reserves one extract() returns for a tile.
MaxReserves == 1
\* get_servers_for_query calls that are counted exactly
MaxCalls == 4
\* records in one call of process_tile_reserves
MaxRecords == 3
\* the widest span of a bbox given to the tiler, in units, and the largest
\* tile size, in km
MaxSpan == 3
MaxTileKm == 2
\* polygons in one MultiPolygon
MaxPolygons == 2
\* rows of the table nature_reserves that a point query runs on
MaxStored == 2
\* members of one relation
MaxMembers == 3
\* records in one import into nature_reserves
MaxBatch == 2
\* tiles of the area two runs of the import command crawl at the same time
MaxWorkerTiles == 2

\* ------------------------------------------------------ program constants
\* ServerManager.__init__ defaults and OSMNatureReserveExtractor.__init__.
MaxConsecutiveFailures == 3
RequestsBeforeRetryFailed == 50
MaxRetries == 3
\* Command.TILE_SIZE_KM
TILE_SIZE_KM == 40

\* ServerManager.DEFAULT_SERVERS (six mirrors, by short name).
DEFAULT_SERVERS == <<"s1", "s2", "s3", "s4", "s5", "s6">>

\* The endpoint lists a ServerManager may be constructed with.
ServerLists == { SubSeq(DEFAULT_SERVERS, 1, n) : n \in 1..MaxServers }

Range(seq) == { seq[i] : i \in 1..Len(seq) }

Min(a, b) == IF a < b THEN a ELSE b

\* the last n elements of a sequence (all of it when it is shorter)
LastOf(seq, n) ==
  IF Len(seq) <= n THEN seq ELSE SubSeq(seq, Len(seq) - n + 1, Len(seq))

\* What one requests.post can come back with: the status code (and, for a
\* 200, the shape of the body), or the exception it raises.
OkResponse == "200"
Responses == { "200", "200-no-elements", "200-bad-json", "504", "429", "503",
               "400", "404", "500", "timeout", "connection-error" }

\* A response the code handles by record_failure + continue in every position.
SoftFailures == { "200-no-elements", "200-bad-json", "504", "429", "503", "timeout" }
\* The `else` branch of the status dispatch (any other status code).
OtherStatus == { "400", "404", "500" }

VARIABLES
  \* ServerManager
  servers,                          \* self.servers
  server_index,                     \* self._server_index
  server_failures,                  \* self._server_failures, read with .get(s, 0)
  successful_requests_since_skip,   \* self._successful_requests_since_skip
  \* query_overpass (one call in progress at a time)
  fpc,                              \* "idle" | "loop"
  servers_to_try,                   \* the list get_servers_for_query returned
  attempt,                          \* outer loop variable, 0-based
  idx,                              \* inner loop variable, 1-based here
  result,                           \* how the last call ended
  \* observations of the call in progress
  tried,                            \* endpoints posted to, in order
  slept,                            \* the time.sleep before each of those posts
  recorded,                         \* record_failure calls per endpoint
  reset_announced,                  \* "All servers have failed consistently..." was output
  \* observations of the calls so far
  calls,                            \* get_servers_for_query calls, counted up to MaxCalls
  last_lists,                       \* the lists returned by the last calls, at most
                                    \* Len(servers) of them, oldest first
  mock                              \* the remote: FALSE any answer, TRUE the two-endpoint mock

VARIABLES
  \* the Store
  import_grids,                     \* table import_grids: bbox -> ImportGrid row
  import_grid_rows,                 \* table import_grids: the bbox of each row, by
                                    \* primary key (order of insertion)
  nature_reserves,                  \* table nature_reserves: the primary keys
  now,                              \* timezone.now(), in whole hours
  \* Command.handle (one run at a time)
  cpc,                              \* "idle" | "gridded" | "single" | "returned"
  options,                          \* the options of the run
  tiles,                            \* split_bbox_into_tiles(bbox, tile_size_km)
  tile_idx,                         \* tiles handled so far
  processed,
  total_created,
  total_updated,
  total_errors,
  \* observations of the run
  fetch_calls,                      \* calls of extractor.extract in this run
  tile_results,                     \* per tile of the gridded loop so far:
                                    \* "skipped" | "succeeded" | "failed"
  output                            \* the last line written for a tile

VARIABLES
  \* Command.process_tile_reserves (one call)
  ppc,                              \* "loop" | "returned"
  reserves_arg,                     \* the argument `reserves`
  store_before,                     \* table nature_reserves when the call starts
  record_idx,                       \* records handled so far
  counts                            \* created_count, updated_count, error_count
                                    \* and the table nature_reserves

processVars == << ppc, reserves_arg, store_before, record_idx, counts >>

VARIABLES
  \* should_split_bbox and split_bbox_into_tiles (one call of each)
  tpc,                              \* "called" | "returned"
  bbox_arg,                         \* the argument `bbox`
  tile_size_arg,                    \* the argument `tile_size_km`
  split_result,                     \* what should_split_bbox returned
  tiles_result                      \* what split_bbox_into_tiles returned

tilerVars == << tpc, bbox_arg, tile_size_arg, split_result, tiles_result >>

VARIABLES
  \* point_in_geojson_geometry and geojson_geometry_area (one call of each)
  gpc,                              \* "called" | "returned"
  geom_arg,                         \* the argument `geom`
  lon_arg,                          \* the argument `lon`
  lat_arg,                          \* the argument `lat`
  inside_result,                    \* what point_in_geojson_geometry returned
  area_result                       \* what geojson_geometry_area returned, doubled

geometryVars == << gpc, geom_arg, lon_arg, lat_arg, inside_result, area_result >>

VARIABLES
  \* NatureReserveViewSet.at_point (one request)
  qpc,                              \* "called" | "returned"
  reserve_rows,                     \* table nature_reserves, in the order of the query set
  params,                           \* request.query_params
  reserves_bbox,                    \* list(qs): the rows the bbox query returned
  response                          \* the rows serialized into the response, in order

queryVars == << qpc, reserve_rows, params, reserves_bbox, response >>

VARIABLES
  \* OSMNatureReserveExtractor.parse_elements (one call)
  epc,                              \* "called" | "returned"
  data_elements,                    \* data["elements"]
  relation_geometry,                \* what extract_relation_geometry returned for the relation
  parsed_reserves                   \* the list parse_elements returns

relationVars == << epc, data_elements, relation_geometry, parsed_reserves >>

VARIABLES
  \* the table nature_reserves under the two importers
  table,                            \* the rows: id, source, data
  written_by,                       \* history: the importer that created the row of an id
  last_import,                      \* "none" | "osm" | "osm --clear" | "wdpa": what ran last
  batch,                            \* the records it was given
  import_counts                     \* what it returned: created, updated, other

storeVars == << table, written_by, last_import, batch, import_counts >>

VARIABLES
  \* two runs of the import command at the same time, on the gridded path
  grid_table,                       \* table import_grids: bbox -> row
  resume_option,                    \* options["resume"] of both runs
  wpc,                              \* per run: "next" | "processing" | "returned"
  wtile,                            \* per run: tiles it is done with
  wgrid                             \* per run: the row it read for its tile

workersVars == << grid_table, resume_option, wpc, wtile, wgrid >>

VARIABLES
  \* the bbox of a record at import and the bbox test of at_point on it
  bpc,                              \* "import" | "skipped" | "stored" | "asked"
  raw_geometry,                     \* reserve_data["geometry"]
  stored_bbox,                      \* min_lon, min_lat, max_lon, max_lat of the row
  point_arg,                        \* lon, lat of the request
  in_bbox,                          \* the row passes the bbox filter
  in_geometry                       \* the geometry contains the point

bboxVars == << bpc, raw_geometry, stored_bbox, point_arg, in_bbox, in_geometry >>

VARIABLES
  \* split_bbox_into_tiles, one iteration of its loops at a time
  spc,                              \* "outer" | "inner" | "returned"
  split_bbox,                       \* the argument `bbox`
  split_size,                       \* the argument `tile_size_km`
  split_lat,                        \* the local `current_lat`
  split_lon,                        \* the local `current_lon`
  split_max_lat,                    \* the local `tile_max_lat`
  split_tiles                       \* the local `tiles`

splitVars == << spc, split_bbox, split_size, split_lat, split_lon, split_max_lat,
                split_tiles >>

\* the groups of the later sections
laterVars == << relationVars,
               storeVars,
               workersVars,
               bboxVars,
               splitVars >>

crawlVars == << import_grids, import_grid_rows, nature_reserves, now, cpc, options, tiles,
                tile_idx, processed, total_created, total_updated,
                total_errors, fetch_calls, tile_results, output >>

fetchVars == << servers, server_index, server_failures,
                successful_requests_since_skip, fpc, servers_to_try, attempt,
                idx, result, tried, slept, recorded, reset_announced, calls,
                last_lists, mock >>

\* what the fetch client and the import command leave alone
notFetchVars == << crawlVars, processVars, tilerVars, geometryVars, queryVars,
                  laterVars >>
notCrawlVars == << fetchVars, processVars, tilerVars, geometryVars, queryVars,
                  laterVars >>
notProcessVars == << fetchVars, crawlVars, tilerVars, geometryVars, queryVars,
                    laterVars >>
notTilerVars == << fetchVars, crawlVars, processVars, geometryVars, queryVars,
                  laterVars >>
notGeometryVars == << fetchVars, crawlVars, processVars, tilerVars, queryVars,
                     laterVars >>
notQueryVars == << fetchVars, crawlVars, processVars, tilerVars, geometryVars,
                  laterVars >>
earlierVars == << fetchVars, crawlVars, processVars, tilerVars, geometryVars,
                 queryVars >>
notRelationVars == << earlierVars,
  storeVars,
  workersVars,
  bboxVars,
  splitVars >>
notStoreVars == << earlierVars, relationVars,
  workersVars,
  bboxVars,
  splitVars >>
notWorkersVars == << earlierVars, relationVars, storeVars,
  bboxVars,
  splitVars >>
notBboxVars == << earlierVars, relationVars, storeVars, workersVars,
  splitVars >>
notSplitVars == << earlierVars, relationVars, storeVars, workersVars, bboxVars >>

vars == << fetchVars, crawlVars, processVars, tilerVars, geometryVars,
           queryVars, laterVars >>

\* ------------------------------------------------------------ ServerManager

\* (mutant) every call starts at the first endpoint
RotateNot(list, i) == list

\* self.servers[i:] + self.servers[:i]
Rotate(list, i) == SubSeq(list, i + 1, Len(list)) \o SubSeq(list, 1, i)

\* self._server_failures.clear()
ClearFailures(failures) == [ s \in DOMAIN failures |-> 0 ]

\* (mutant) an endpoint at the threshold still counts as available
AvailableAtThreshold(rotated, failures) ==
  SelectSeq(rotated, LAMBDA s : failures[s] <= MaxConsecutiveFailures)

\* [s for s in rotated if failures.get(s, 0) < max_consecutive_failures]
Available(rotated, failures) ==
  SelectSeq(rotated, LAMBDA s : failures[s] < MaxConsecutiveFailures)

\* (mutant) no reset when every endpoint is filtered out
GetServersForQueryNoReset(list, index, failures) ==
  [ servers_to_try  |-> Available(Rotate(list, index), failures),
    server_index    |-> (index + 1) % Len(list),
    server_failures |-> failures,
    reset           |-> FALSE ]

\* ServerManager.get_servers_for_query: the returned list and the new fields.
GetServersForQuery(list, index, failures) ==
  LET rotated   == Rotate(list, index)
      available == Available(rotated, failures)
  IN  [ servers_to_try  |-> IF available = << >> THEN rotated ELSE available,
        server_index    |-> (index + 1) % Len(list),
        server_failures |-> IF available = << >> THEN ClearFailures(failures)
                                                 ELSE failures,
        reset           |-> available = << >> ]

\* ServerManager.record_failure
RecordFailure(failures, s) == [ failures EXCEPT ![s] = @ + 1 ]

\* (mutant) the counter is compared with > instead of >=
RecordSuccessLateReset(failures, successes, s) ==
  LET f == [ failures EXCEPT ![s] = 0 ]
      n == successes + 1
  IN  IF n > RequestsBeforeRetryFailed
        THEN [ server_failures |-> ClearFailures(f), successes |-> 0 ]
        ELSE [ server_failures |-> f, successes |-> n ]

\* ServerManager.record_success: the new failure map and success counter.
RecordSuccess(failures, successes, s) ==
  LET f == [ failures EXCEPT ![s] = 0 ]
      n == successes + 1
  IN  IF n >= RequestsBeforeRetryFailed
        THEN [ server_failures |-> ClearFailures(f), successes |-> 0 ]
        ELSE [ server_failures |-> f, successes |-> n ]

\* ------------------------------------------------------------ query_overpass

NoResult == [ kind |-> "none", server |-> "-", status |-> "-",
              has_query |-> FALSE, attempts |-> 0, nservers |-> 0 ]

\* return data (line 181)
DataFrom(s) == [ NoResult EXCEPT !.kind = "data", !.server = s, !.status = "200" ]

\* (mutant) the query text is appended whatever the status
HTTPErrorAlwaysWithQuery(s, status) ==
  [ NoResult EXCEPT !.kind = "HTTPError", !.server = s, !.status = status,
                    !.has_query = TRUE ]

\* raise requests.exceptions.HTTPError(error_msg) (lines 211-221); the
\* message carries the query only when status_code == 400.
HTTPErrorOf(s, status) ==
  [ NoResult EXCEPT !.kind = "HTTPError", !.server = s, !.status = status,
                    !.has_query = (status = "400") ]

\* the bare `raise` of a connection error (line 239)
ConnectionErrorOf(s) ==
  [ NoResult EXCEPT !.kind = "ConnectionError", !.server = s ]

\* raise RequestException("Failed to query Overpass API after {max_retries}
\* attempts across {len(servers_to_try)} servers") (lines 246-248)
EndpointsExhausted(n) ==
  [ NoResult EXCEPT !.kind = "EndpointsExhausted", !.attempts = MaxRetries,
                    !.nservers = n ]

\* (mutant) the last endpoint of any attempt counts as the last request
IsLastOfAnyAttempt(a, s, list) == s = list[Len(list)]

\* attempt == self.max_retries - 1 and server_url == servers_to_try[-1]
IsLast(a, s, list) == a = MaxRetries - 1 /\ s = list[Len(list)]

\* What the remote may answer to a request to endpoint s.
Answers(s) ==
  IF mock THEN (IF s = servers[1] THEN {"504"} ELSE {OkResponse}) ELSE Responses

\* How many times record_failure(server_url) runs for one failed request: the
\* HTTPError raised at line 221 is raised inside the `try`, so the handler
\* `except requests.exceptions.RequestException` (lines 233-239) catches it
\* and records the failure a second time before re-raising.
FailureRecords(resp, last) ==
  IF resp \in OtherStatus /\ last THEN 2 ELSE 1

\* record_failure(s) run n times in a row
RecordFailures(failures, s, n) ==
  IF n = 0 THEN failures
  ELSE IF n = 1 THEN RecordFailure(failures, s)
  ELSE RecordFailure(RecordFailure(failures, s), s)

\* OSMNatureReserveExtractor.__init__: base_delay and max_delay, and the
\* delay between endpoints, in hundredths of a second
BaseDelay == 100
MaxDelay == 30000
EndpointDelay == 50

\* min(self.base_delay * (2**attempt), self.max_delay)
ExponentialDelay(a) == Min(BaseDelay * 2 ^ a, MaxDelay)

\* the sleep before the post of iteration (attempt a, endpoint i) of
\* query_overpass (lines 152-159): its kind and its length, for the backoff
\* the exponential delay that _calculate_backoff adds a jitter of up to a
\* tenth to
WaitBefore(a, i) ==
  IF a > 0 THEN [ kind |-> "backoff", least |-> ExponentialDelay(a) ]
  ELSE IF i > 1 THEN [ kind |-> "delay", least |-> EndpointDelay ]
  ELSE [ kind |-> "none", least |-> 0 ]

\* query_overpass, line 147: the call starts with get_servers_for_query.
CallQueryOverpass ==
  /\ fpc = "idle"
  /\ LET g == GetServersForQuery(servers, server_index, server_failures)
     IN  /\ servers_to_try' = g.servers_to_try
         /\ server_index' = g.server_index
         /\ server_failures' = g.server_failures
         /\ reset_announced' = g.reset
         /\ last_lists' = LastOf(Append(last_lists, g.servers_to_try),
                                 Len(servers))
  /\ calls' = Min(calls + 1, MaxCalls)
  /\ fpc' = "loop"
  /\ attempt' = 0
  /\ idx' = 1
  /\ result' = NoResult
  /\ tried' = << >>
  /\ slept' = << >>
  /\ recorded' = [ s \in Range(servers) |-> 0 ]
  /\ UNCHANGED << servers, successful_requests_since_skip, mock >>
  /\ UNCHANGED notFetchVars

\* (mutant) `break` for `continue`: a failure ends the attempt
ContinueWithNextAttempt ==
  IF attempt < MaxRetries - 1
    THEN /\ idx' = 1
         /\ attempt' = attempt + 1
         /\ UNCHANGED << fpc, result >>
    ELSE /\ fpc' = "idle"
         /\ result' = EndpointsExhausted(Len(servers_to_try))
         /\ UNCHANGED << attempt, idx >>

\* `continue`: the next endpoint, the next attempt, or the end of both loops.
Continue ==
  IF idx < Len(servers_to_try)
    THEN /\ idx' = idx + 1
         /\ UNCHANGED << attempt, fpc, result >>
    ELSE IF attempt < MaxRetries - 1
      THEN /\ idx' = 1
           /\ attempt' = attempt + 1
           /\ UNCHANGED << fpc, result >>
      ELSE /\ fpc' = "idle"
           /\ result' = EndpointsExhausted(Len(servers_to_try))
           /\ UNCHANGED << attempt, idx >>

\* an exception leaves query_overpass
Raise(r) ==
  /\ fpc' = "idle"
  /\ result' = r
  /\ UNCHANGED << attempt, idx >>

\* One iteration of the inner loop (lines 150-244): post the query to
\* servers_to_try[idx] and dispatch on what comes back.
Request(resp) ==
  /\ fpc = "loop"
  /\ LET server_url == servers_to_try[idx]
         last       == IsLast(attempt, server_url, servers_to_try)
     IN  /\ resp \in Answers(server_url)
         /\ tried' = Append(tried, server_url)
         /\ slept' = Append(slept, WaitBefore(attempt, idx))
         /\ IF resp = OkResponse
              THEN LET r == RecordSuccess(server_failures,
                                          successful_requests_since_skip,
                                          server_url)
                   IN  /\ server_failures' = r.server_failures
                       /\ successful_requests_since_skip' = r.successes
                       /\ Raise(DataFrom(server_url))
                       /\ UNCHANGED recorded
              ELSE LET n == FailureRecords(resp, last)
                   IN  /\ server_failures' =
                            RecordFailures(server_failures, server_url, n)
                       /\ recorded' = [ recorded EXCEPT ![server_url] = @ + n ]
                       /\ UNCHANGED successful_requests_since_skip
                       /\ IF resp \in OtherStatus /\ last
                            THEN Raise(HTTPErrorOf(server_url, resp))
                            ELSE IF resp = "connection-error" /\ last
                              THEN Raise(ConnectionErrorOf(server_url))
                              ELSE Continue
  /\ UNCHANGED << servers, server_index, servers_to_try, reset_announced,
                  calls, last_lists, mock >>
  /\ UNCHANGED notFetchVars

\* ------------------------------------------------------------- GridTiler
\* Coordinates are whole numbers in units of 1/111 degree, so that the
\* km / 111.0 degrees of latitude of one tile are km units.  Optional values
\* (None in the code) are << >> or << v >>.

\* 1 / cos(radians(center_lat)), to the whole number: 1 below 60 degrees of
\* latitude and 2 from 60 degrees (6660 units) on; the argument is twice the
\* centre latitude, (min_lat + max_lat).
Secant(twice_center_lat) ==
  IF twice_center_lat >= 13320 \/ twice_center_lat <= -13320 THEN 2 ELSE 1

\* Command.calculate_tile_size_degrees: << lon_degrees, lat_degrees >>
CalculateTileSizeDegrees(twice_center_lat, tile_size_km) ==
  LET km == IF tile_size_km = << >> THEN TILE_SIZE_KM ELSE tile_size_km[1]
  IN  << km * Secant(twice_center_lat), km >>

\* Command.should_split_bbox
ShouldSplitBbox(bbox, tile_size_km) ==
  LET d == CalculateTileSizeDegrees(bbox[2] + bbox[4], tile_size_km)
  IN  bbox[3] - bbox[1] > d[1] \/ bbox[4] - bbox[2] > d[2]

\* (mutant) the last column is not clipped to max_lon
RECURSIVE LonSweepUnclipped(_, _, _, _, _)
LonSweepUnclipped(current_lon, current_lat, tile_max_lat, max_lon, lon_degrees) ==
  IF current_lon < max_lon
    THEN << << current_lon, current_lat,
               current_lon + lon_degrees, tile_max_lat >> >>
         \o LonSweepUnclipped(current_lon + lon_degrees, current_lat,
                              tile_max_lat, max_lon, lon_degrees)
    ELSE << >>

\* the inner `while current_lon < max_lon` of split_bbox_into_tiles
RECURSIVE LonSweep(_, _, _, _, _)
LonSweep(current_lon, current_lat, tile_max_lat, max_lon, lon_degrees) ==
  IF current_lon < max_lon
    THEN << << current_lon, current_lat,
               Min(current_lon + lon_degrees, max_lon), tile_max_lat >> >>
         \o LonSweep(current_lon + lon_degrees, current_lat, tile_max_lat,
                     max_lon, lon_degrees)
    ELSE << >>

\* the outer `while current_lat < max_lat` of split_bbox_into_tiles
RECURSIVE LatSweep(_, _, _, _)
LatSweep(current_lat, bbox, lon_degrees, lat_degrees) ==
  IF current_lat < bbox[4]
    THEN LonSweep(bbox[1], current_lat,
                  Min(current_lat + lat_degrees, bbox[4]), bbox[3], lon_degrees)
         \o LatSweep(current_lat + lat_degrees, bbox, lon_degrees, lat_degrees)
    ELSE << >>

\* Command.split_bbox_into_tiles
SplitBboxIntoTiles(bbox, tile_size_km) ==
  LET d == CalculateTileSizeDegrees(bbox[2] + bbox[4], tile_size_km)
  IN  LatSweep(bbox[2], bbox, d[1], d[2])

\* -------------------------------------------------------- geometry_utils
\* A ring is a sequence of << lon, lat >> points; a Polygon's coordinates are
\* its rings, the outer one first; a MultiPolygon's coordinates are such
\* polygons.  Coordinates are whole numbers (hundredths of a degree where
\* degrees are meant), and the arithmetic is exact.

Abs(x) == IF x < 0 THEN -x ELSE x
Max(a, b) == IF a > b THEN a ELSE b

\* _ring_area_deg2, doubled: abs(area), before the division by 2.0
RECURSIVE ShoelaceFrom(_, _)
ShoelaceFrom(ring, i) ==
  IF i > Len(ring) THEN 0
  ELSE LET j == (i % Len(ring)) + 1
       IN  ring[i][1] * ring[j][2] - ring[j][1] * ring[i][2]
           + ShoelaceFrom(ring, i + 1)

RingAreaDeg2(ring) ==
  IF Len(ring) < 3 THEN 0 ELSE Abs(ShoelaceFrom(ring, 1))

\* total -= _ring_area_deg2(ring) for ring in rings[k:]
RECURSIVE HolesArea(_, _)
HolesArea(rings, k) ==
  IF k > Len(rings) THEN 0
  ELSE RingAreaDeg2(rings[k]) + HolesArea(rings, k + 1)

\* the sum over the polygons of a MultiPolygon, before max(0.0, total)
RECURSIVE PolygonsArea(_, _)
PolygonsArea(polys, k) ==
  IF k > Len(polys) THEN 0
  ELSE RingAreaDeg2(polys[k][1]) - HolesArea(polys[k], 2)
       + PolygonsArea(polys, k + 1)

\* geojson_geometry_area, doubled
GeojsonGeometryArea(geom) ==
  IF geom.coordinates = << >> THEN 0
  ELSE IF geom.type = "Polygon"
    THEN Max(0, RingAreaDeg2(geom.coordinates[1])
                  - HolesArea(geom.coordinates, 2))
  ELSE IF geom.type = "MultiPolygon"
    THEN Max(0, PolygonsArea(geom.coordinates, 1))
  ELSE 0

\* the test of one edge in _point_in_ring:
\*   ((yi > lat) != (yj > lat)) and
\*   (lon < (xj - xi) * (lat - yi) / (yj - yi) + xi)
\* with the division cleared (yj # yi where the first half holds)
Crosses(lon, lat, pi, pj) ==
  /\ (pi[2] > lat) # (pj[2] > lat)
  /\ IF pj[2] - pi[2] > 0
       THEN (lon - pi[1]) * (pj[2] - pi[2]) < (pj[1] - pi[1]) * (lat - pi[2])
       ELSE (lon - pi[1]) * (pj[2] - pi[2]) > (pj[1] - pi[1]) * (lat - pi[2])

\* the loop of _point_in_ring from edge i on; j is the previous index
RECURSIVE RayFrom(_, _, _, _, _, _)
RayFrom(lon, lat, ring, i, j, inside) ==
  IF i > Len(ring) THEN inside
  ELSE RayFrom(lon, lat, ring, i + 1, i,
               IF Crosses(lon, lat, ring[i], ring[j]) THEN ~inside ELSE inside)

\* _point_in_ring
PointInRing(lon, lat, ring) ==
  IF Len(ring) < 3 THEN FALSE
  ELSE RayFrom(lon, lat, ring, 1, Len(ring), FALSE)

\* (mutant) the holes of a polygon are not looked at
PointInPolygonIgnoringHoles(lon, lat, rings) ==
  PointInRing(lon, lat, rings[1])

\* the Polygon branch of point_in_geojson_geometry, also the test of one
\* polygon in its MultiPolygon branch
PointInPolygon(lon, lat, rings) ==
  /\ PointInRing(lon, lat, rings[1])
  /\ ~\E k \in 2..Len(rings) : PointInRing(lon, lat, rings[k])

\* point_in_geojson_geometry
PointInGeojsonGeometry(lon, lat, geom) ==
  IF geom.coordinates = << >> THEN FALSE
  ELSE IF geom.type = "Polygon"
    THEN PointInPolygon(lon, lat, geom.coordinates)
  ELSE IF geom.type = "MultiPolygon"
    THEN \E k \in 1..Len(geom.coordinates) :
           PointInPolygon(lon, lat, geom.coordinates[k])
  ELSE FALSE

\* ------------------------------------------------- the bbox of a geometry
\* A raw geometry as bbox_from_osm_geometry is given it: None
\* ([form |-> "None"]), a GeoJSON dict ([form |-> "geojson", geom |-> ...])
\* or a list ([form |-> "list", nesting, points, value]): nesting 1 is a
\* ring, 2 a list of rings, 3 a list of lists of rings; points says whether
\* a point is a dict {lat, lon} ("dict") or a list [lon, lat] ("list").  In
\* the model a point is << lon, lat >> in both.
SetMin(S) == CHOOSE x \in S : \A y \in S : x <= y
SetMax(S) == CHOOSE x \in S : \A y \in S : x >= y

\* (min(lons), min(lats), max(lons), max(lats)), None without points
BboxOfPoints(points) ==
  IF points = { } THEN << >>
  ELSE << << SetMin({ p[1] : p \in points }), SetMin({ p[2] : p \in points }),
             SetMax({ p[1] : p \in points }), SetMax({ p[2] : p \in points }) >> >>

\* bbox_from_geojson_geometry: flatten gathers every position of the
\* coordinates
BboxFromGeojsonGeometry(geom) ==
  LET rings == IF geom.type = "MultiPolygon"
                 THEN UNION { Range(polygon) : polygon \in Range(geom.coordinates) }
                 ELSE Range(geom.coordinates)
  IN  BboxOfPoints(UNION { Range(ring) : ring \in rings })

\* lines 268-277: the bboxes that are not None, and the bbox around them
UnionOfBboxes(bboxes) ==
  LET found == { bboxes[k][1] : k \in { k \in 1..Len(bboxes) : bboxes[k] # << >> } }
  IN  IF found = { } THEN << >>
      ELSE << << SetMin({ b[1] : b \in found }), SetMin({ b[2] : b \in found }),
                 SetMax({ b[3] : b \in found }), SetMax({ b[4] : b \in found }) >> >>

\* the list branch of bbox_from_osm_geometry (lines 263-281).  A list whose
\* first item is a list is a list of geometries, so a ring of [lon, lat]
\* points is a list of geometries of two numbers each, none of which has
\* a bbox.
RECURSIVE BboxFromList(_, _, _)
BboxFromList(nesting, points, value) ==
  IF value = << >> THEN << >>
  ELSE IF nesting > 1
    THEN UnionOfBboxes([ k \in 1..Len(value) |->
                           BboxFromList(nesting - 1, points, value[k]) ])
  ELSE IF points = "list" THEN << >>
  ELSE IF Len(value) >= 3 THEN BboxOfPoints(Range(value))
  ELSE << >>

\* bbox_from_osm_geometry
BboxFromOsmGeometry(raw) ==
  IF raw.form = "None" THEN << >>
  ELSE IF raw.form = "geojson"
    THEN IF raw.geom.type \in { "Polygon", "MultiPolygon" }
           THEN BboxFromGeojsonGeometry(raw.geom)
           ELSE << >>
  ELSE BboxFromList(raw.nesting, raw.points, raw.value)

\* _points_ring_to_geojson_ring: the ring, closed; None under three points
PointsRingToGeojsonRing(ring) ==
  IF Len(ring) < 3 THEN << >>
  ELSE IF ring[1] # ring[Len(ring)] THEN << Append(ring, ring[1]) >>
  ELSE << ring >>

\* _overpass_geometry_to_geojson: a ring of dicts is a Polygon of one ring,
\* a list of rings a Polygon of the rings that convert; of a ring of
\* [lon, lat] points the first item holds a number, of a list of lists of
\* rings no item converts (a list of fewer than three rings is no ring):
\* both None.
OverpassGeometryToGeojson(raw) ==
  IF raw.value = << >> THEN << >>
  ELSE IF raw.nesting = 1
    THEN IF raw.points = "list" \/ PointsRingToGeojsonRing(raw.value) = << >>
           THEN << >>
           ELSE << [ type |-> "Polygon",
                     coordinates |-> PointsRingToGeojsonRing(raw.value) ] >>
  ELSE IF raw.nesting = 2
    THEN LET rings == SelectSeq([ k \in 1..Len(raw.value) |->
                                    PointsRingToGeojsonRing(raw.value[k]) ],
                                LAMBDA r : r # << >>)
         IN  IF rings = << >> THEN << >>
             ELSE << [ type |-> "Polygon",
                       coordinates |-> [ k \in 1..Len(rings) |-> rings[k][1] ] ] >>
  ELSE << >>

\* the GeoJSON geometry of a raw geometry: the dict itself, the conversion
\* of a list
GeojsonOfRaw(raw) ==
  IF raw.form = "None" THEN << >>
  ELSE IF raw.form = "geojson" THEN << raw.geom >>
  ELSE OverpassGeometryToGeojson(raw)

\* -------------------------------------------------------- parse_elements
\* An element of data["elements"]: type, id, whether its tags have one of
\* the keys parse_elements asks for, geometry and members; a member: type,
\* ref, role and geometry.  A key that is absent is << >>, a value v is
\* << v >>; a way geometry is a list of nodes.  What
\* extract_relation_geometry returns is a list nested once (a ring), twice
\* (a polygon: rings) or three times (polygons): nesting says which, and
\* polygons holds the rings polygon by polygon.

\* `not x` for x = None or x = []
Falsy(opt) == opt = << >> \/ opt[1] = << >>

\* dict.get(key)
Get(dict, key) == IF key \in DOMAIN dict THEN << dict[key] >> ELSE << >>

\* way_geometries, built over all_elements[i..]
RECURSIVE WayGeometriesFrom(_, _, _)
WayGeometriesFrom(all_elements, i, way_geometries) ==
  IF i > Len(all_elements) THEN way_geometries
  ELSE LET elem == all_elements[i]
       IN  IF elem.type = "way" /\ elem.geometry # << >> /\ elem.id # << >>
             THEN WayGeometriesFrom(all_elements, i + 1,
                    [ k \in DOMAIN way_geometries \cup { elem.id[1] } |->
                        IF k = elem.id[1] THEN elem.geometry[1]
                        ELSE way_geometries[k] ])
             ELSE WayGeometriesFrom(all_elements, i + 1, way_geometries)

\* (mutant) only the geometry embedded in the member is looked at
WayGeomEmbeddedOnly(member, way_geometries) == member.geometry

\* member.get("geometry") or way_geometries.get(int(way_ref))
WayGeom(member, way_geometries) ==
  IF ~Falsy(member.geometry) THEN member.geometry
  ELSE Get(way_geometries, member.ref[1])

NoRings == [ outer_rings |-> << >>, inner_rings |-> << >>, missing_ways |-> << >> ]

\* the loop over members, from member i on
RECURSIVE CollectRings(_, _, _, _)
CollectRings(members, i, way_geometries, acc) ==
  IF i > Len(members) THEN acc
  ELSE LET member == members[i]
           way_geom == WayGeom(member, way_geometries)
       IN  IF member.type # "way" \/ member.ref = << >>
             THEN CollectRings(members, i + 1, way_geometries, acc)
           ELSE IF Falsy(way_geom)
             THEN CollectRings(members, i + 1, way_geometries,
                    [ acc EXCEPT !.missing_ways = Append(@, member.ref[1]) ])
           ELSE IF member.role = "outer"
             THEN CollectRings(members, i + 1, way_geometries,
                    [ acc EXCEPT !.outer_rings = Append(@, way_geom[1]) ])
           ELSE IF member.role = "inner"
             THEN CollectRings(members, i + 1, way_geometries,
                    [ acc EXCEPT !.inner_rings = Append(@, way_geom[1]) ])
           ELSE CollectRings(members, i + 1, way_geometries, acc)

\* (mutant) only the first outer ring is kept
PolygonsOfFirstOuter(outer_rings, inner_rings) ==
  << << outer_rings[1] >> \o inner_rings >>

\* result: one polygon per outer ring; the inner rings are added when there
\* is one polygon only
PolygonsOf(outer_rings, inner_rings) ==
  LET polygons == [ k \in 1..Len(outer_rings) |-> << outer_rings[k] >> ]
  IN  IF Len(polygons) = 1 /\ inner_rings # << >>
        THEN << polygons[1] \o inner_rings >>
        ELSE polygons

ExtractRelationGeometry(relation, all_elements) ==
  IF relation.members = << >> THEN << >>
  ELSE LET rings == CollectRings(relation.members, 1,
                                 WayGeometriesFrom(all_elements, 1, << >>), NoRings)
           polygons == PolygonsOf(rings.outer_rings, rings.inner_rings)
       IN  IF rings.outer_rings = << >> THEN << >>
           ELSE IF Len(rings.outer_rings) = 1 /\ rings.inner_rings = << >>
             THEN << [ nesting |-> 1, polygons |-> << << rings.outer_rings[1] >> >> ] >>
           ELSE IF Len(polygons) > 1
             THEN << [ nesting |-> 3, polygons |-> polygons ] >>
             ELSE << [ nesting |-> 2, polygons |-> << polygons[1] >> ] >>

\* the geometry parse_elements settles on for elem: << >> when the element
\* is left out for want of one
ElementGeometry(elem, elements) ==
  IF elem.type = "relation" /\ Falsy(elem.geometry)
    THEN ExtractRelationGeometry(elem, elements)
  ELSE IF elem.geometry = << >> THEN << >>
  ELSE << [ nesting |-> 1, polygons |-> << << elem.geometry[1] >> >> ] >>

\* parse_elements, from element i on
RECURSIVE ParseFrom(_, _, _)
ParseFrom(elements, i, reserves) ==
  IF i > Len(elements) THEN reserves
  ELSE LET elem == elements[i]
           geometry == ElementGeometry(elem, elements)
       IN  IF \/ elem.type = "node"
              \/ elem.id = << >>
              \/ ~elem.tags
              \/ ( elem.type \in { "relation", "way" } /\ geometry = << >> )
             THEN ParseFrom(elements, i + 1, reserves)
             ELSE ParseFrom(elements, i + 1,
                    Append(reserves,
                           [ id |-> elem.type \o "_" \o ToString(elem.id[1]),
                             geometry |-> geometry ]))

ParseElements(elements) == ParseFrom(elements, 1, << >>)

\* ------------------------------------------------------- the two importers
\* A row of nature_reserves here is its id, its source and data, which
\* stands for every field the defaults of update_or_create set.

\* element_id_str of parse_elements: an id that is a number gives
\* "<type>_<int(id)>", any other id gives str(id).  elem_id is
\* [ number |-> << n >> or << >>, text |-> << s >> or << >> ].
ElementIdStr(elem_type, elem_id) ==
  IF elem_id.number # << >>
    THEN elem_type \o "_" \o ToString(elem_id.number[1])
    ELSE elem_id.text[1]

\* reserve_id = f"wdpa_{site_id}"
WdpaReserveId(site_id) == "wdpa_" \o site_id

\* QuerySet.create for a model whose primary key is id: IntegrityError when
\* a row of that id is there
Create(rows, id, source, data) ==
  IF \E row \in rows : row.id = id
    THEN [ table |-> rows, created |-> FALSE, raised |-> TRUE ]
    ELSE [ table |-> rows \cup { [ id |-> id, source |-> source, data |-> data ] },
           created |-> TRUE, raised |-> FALSE ]

\* NatureReserve.objects.update_or_create(id=id, [source=lookup_source],
\* defaults=data): the row the lookup finds gets the defaults, else a row
\* is created from the lookup (source: the default "osm" when the lookup
\* names none) and the defaults.  lookup_source is << >> or << source >>.
UpdateOrCreate(rows, id, lookup_source, data) ==
  LET found == { row \in rows :
                   /\ row.id = id
                   /\ lookup_source # << >> => row.source = lookup_source[1] }
  IN  IF found # {}
        THEN [ table |-> ( rows \ found )
                           \cup { [ row EXCEPT !.data = data ] : row \in found },
               created |-> FALSE, raised |-> FALSE ]
        ELSE Create(rows, id,
                    IF lookup_source # << >> THEN lookup_source[1] ELSE "osm", data)

\* the counters after an update_or_create
Counted(tally, outcome) ==
  IF outcome.raised THEN [ tally EXCEPT !.other = @ + 1 ]
  ELSE IF outcome.created THEN [ tally EXCEPT !.created = @ + 1 ]
  ELSE [ tally EXCEPT !.updated = @ + 1 ]

\* (mutant) every record is counted as created
UpsertReserveAlwaysCreated(acc, reserve_data) ==
  LET outcome == UpdateOrCreate(acc.table, reserve_data.id, << >>, reserve_data.data)
  IN  [ table |-> outcome.table,
        counts |-> [ acc.counts EXCEPT !.created = @ + 1 ] ]

\* the body of the loop of process_tile_reserves for a record that does not
\* raise: `continue` without bbox, else update_or_create(id=...) and the
\* counters
UpsertReserve(acc, reserve_data) ==
  IF ~reserve_data.has_geometry THEN acc
  ELSE LET outcome == UpdateOrCreate(acc.table, reserve_data.id, << >>,
                                     reserve_data.data)
       IN  [ table |-> outcome.table, counts |-> Counted(acc.counts, outcome) ]

\* the body of the loop of _process_shard: a record without site id, or with
\* site id "0", or without bbox is skipped; an exception is caught and
\* counted as skipped
UpsertShapeRecord(acc, shape_rec) ==
  IF shape_rec.site_id \in { "", "0" } \/ ~shape_rec.has_bbox
    THEN [ acc EXCEPT !.counts.other = @ + 1 ]
  ELSE LET outcome == UpdateOrCreate(acc.table, WdpaReserveId(shape_rec.site_id),
                                     << "wdpa" >>, shape_rec.data)
       IN  [ table |-> outcome.table, counts |-> Counted(acc.counts, outcome) ]

\* for idx, reserve_data in enumerate(reserves, 1), from record i on
RECURSIVE OsmImportFrom(_, _, _)
OsmImportFrom(reserves, i, acc) ==
  IF i > Len(reserves) THEN acc
  ELSE OsmImportFrom(reserves, i + 1, UpsertReserve(acc, reserves[i]))

\* the loop of _process_shard over the records of the layer, from record i on
RECURSIVE WdpaImportFrom(_, _, _)
WdpaImportFrom(shape_records, i, acc) ==
  IF i > Len(shape_records) THEN acc
  ELSE WdpaImportFrom(shape_records, i + 1,
                      UpsertShapeRecord(acc, shape_records[i]))

\* ---------------------------------------------------------------- views
\* A row of nature_reserves as at_point reads it: id, the stored bbox
\* << min_lon, min_lat, max_lon, max_lat >>, source, the ids of its
\* operators, protect_class and the geometry (None is << >>).

PROTECTION_LEVEL_CLASSES ==
  [ strict |-> { "1a", "1b", "1" },
    national_park |-> { "2" },
    habitat_monument |-> { "3", "4" },
    landscape_sustainable |-> { "5", "6" },
    eu_international |-> { "97" },
    international_intercontinental |-> { "98" },
    resource |-> { "11", "12", "13", "14", "15", "16", "17", "18", "19" },
    social_cultural |-> { "21", "22", "23", "24", "25", "26", "27", "28", "29" },
    other |-> { "7", "99" } ]

\* protection_level_q_filter(protection_level), as a test of one row
ProtectionLevelQFilter(protection_level, reserve) ==
  LET classes == IF protection_level \in DOMAIN PROTECTION_LEVEL_CLASSES
                   THEN PROTECTION_LEVEL_CLASSES[protection_level] ELSE {}
      known_classes == UNION { PROTECTION_LEVEL_CLASSES[l] :
                                 l \in DOMAIN PROTECTION_LEVEL_CLASSES }
  IN  IF classes # {}
        THEN reserve.protect_class # << >> /\ reserve.protect_class[1] \in classes
        ELSE IF protection_level = "other"
          THEN \/ reserve.protect_class = << >>
               \/ reserve.protect_class[1] \notin known_classes
          ELSE TRUE

\* int(operator_id): the number, or << >> for ValueError
IntOf(text) == IF text = "1" THEN << 1 >> ELSE IF text = "2" THEN << 2 >> ELSE << >>

\* (mutant) the bbox test with strict bounds
BboxQueryStrict(reserve, lon, lat) ==
  /\ reserve.bbox[2] < lat /\ reserve.bbox[4] > lat
  /\ reserve.bbox[1] < lon /\ reserve.bbox[3] > lon

\* min_lat__lte=lat, max_lat__gte=lat, min_lon__lte=lon, max_lon__gte=lon
BboxQuery(reserve, lon, lat) ==
  /\ reserve.bbox[2] <= lat /\ reserve.bbox[4] >= lat
  /\ reserve.bbox[1] <= lon /\ reserve.bbox[3] >= lon

\* the filters added to qs for the parameters given
ParamFilters(reserve, p) ==
  /\ p.source # << >> => reserve.source = p.source[1]
  /\ ( p.operator # << >> /\ IntOf(p.operator[1]) # << >> )
       => IntOf(p.operator[1])[1] \in reserve.operators
  /\ p.protection_level # << >>
       => ProtectionLevelQFilter(p.protection_level[1], reserve)

\* geometry_from_reserve(reserve): the geometry of the row, or None
GeometryFromReserve(reserve) == reserve.geometry

\* (mutant) the matches are left in the order of the query set
SortedByAreaNot(pairs) == pairs

\* list.sort(key=lambda pair: geojson_geometry_area(pair[1])): a stable sort
\* by ascending key, here by insertion from the left
RECURSIVE InsertByArea(_, _)
InsertByArea(sorted, reserve) ==
  IF sorted = << >> THEN << reserve >>
  ELSE IF GeojsonGeometryArea(GeometryFromReserve(sorted[Len(sorted)])[1])
            <= GeojsonGeometryArea(GeometryFromReserve(reserve)[1])
    THEN Append(sorted, reserve)
    ELSE Append(InsertByArea(SubSeq(sorted, 1, Len(sorted) - 1), reserve),
                sorted[Len(sorted)])

RECURSIVE SortFrom(_, _, _)
SortFrom(pairs, i, sorted) ==
  IF i > Len(pairs) THEN sorted
  ELSE SortFrom(pairs, i + 1, InsertByArea(sorted, pairs[i]))

SortedByArea(pairs) == SortFrom(pairs, 1, << >>)

\* reserves_bbox = list(qs)
ReservesBbox(rows, p) ==
  SelectSeq(rows, LAMBDA r : BboxQuery(r, p.lon, p.lat) /\ ParamFilters(r, p))

\* the loop over reserves_bbox: the rows with a geometry that contains the
\* point
Containing(candidates, p) ==
  SelectSeq(candidates,
            LAMBDA r : /\ GeometryFromReserve(r) # << >>
                       /\ PointInGeojsonGeometry(p.lon, p.lat,
                                                 GeometryFromReserve(r)[1]))

\* -------------------------------------------------------- CrawlController

\* The inputs of a run: --bbox, --tile-size, --resume, --min-age, --clear.
BBoxes == { << 0, 0, 2, 1 >>, << 0, 0, 1, 1 >> }
TileSizes == { << 1 >> }
MinAges == { << >>, << 1 >> }
Options ==
  [ bbox : BBoxes, tile_size : TileSizes, resume : BOOLEAN,
    min_age : MinAges, clear : BOOLEAN ]

\* One parsed reserve as process_tile_reserves meets it: its id and whether
\* it has a geometry a bbox can be derived from, has none, or makes the
\* processing of the record raise before the upsert.
ReserveIds == { "way_1" }
ReserveData == [ id : ReserveIds, shape : { "ok", "no-geometry", "raises" } ]
ReserveLists == UNION { [ 1..n -> ReserveData ] : n \in 0..MaxReserves }

\* How extractor.extract(bbox=...) ends: the parsed reserves, a
\* requests.exceptions.RequestException out of query_overpass (the
\* endpoints-exhausted error, an HTTPError), or another exception.
RequestErrors == { "EndpointsExhausted", "HTTPError" }
ReturnedReserves ==
  { [ kind |-> "reserves", reserves |-> r, error |-> "" ] : r \in ReserveLists }
RaisedRequestException ==
  { [ kind |-> "RequestException", reserves |-> << >>, error |-> m ] :
      m \in RequestErrors }
RaisedException ==
  { [ kind |-> "Exception", reserves |-> << >>, error |-> "Exception" ] }
ExtractOutcomes == ReturnedReserves \cup RaisedRequestException \cup RaisedException

\* the defaults of ImportGrid.objects.get_or_create (models.py, lines 27-31)
NewGrid(number) ==
  [ grid_number |-> number, last_updated |-> << >>,
    reserves_created_count |-> 0, reserves_updated_count |-> 0,
    success |-> FALSE, error_message |-> << >> ]

\* ImportGrid.objects.get_or_create(min_lon=..., defaults={...}): the table
GetOrCreate(grids, bbox, number) ==
  IF bbox \in DOMAIN grids THEN grids
  ELSE [ b \in DOMAIN grids \cup { bbox } |->
           IF b = bbox THEN NewGrid(number) ELSE grids[b] ]

\* (mutant) create without the lookup
CreateRow(rows, bbox) == Append(rows, bbox)

\* ImportGrid.objects.get_or_create(min_lon=..., min_lat=..., max_lon=...,
\* max_lat=...): the rows of the table; a row is inserted when the lookup
\* by the four coordinates finds none.
GetOrCreateRow(rows, bbox) ==
  IF \E pk \in 1..Len(rows) : rows[pk] = bbox THEN rows ELSE Append(rows, bbox)

\* grid.save()
Save(grids, bbox, grid) == [ grids EXCEPT ![bbox] = grid ]

\* (mutant) a grid updated exactly min_age_hours ago is no longer skipped
ShouldSkipGridStrictAge(grid, resume, min_age_hours, t) ==
  \/ resume /\ grid.success
  \/ /\ min_age_hours # << >>
     /\ grid.last_updated # << >>
     /\ grid.last_updated[1] > t - min_age_hours[1]

\* Command.should_skip_grid, with timezone.now() = t
ShouldSkipGrid(grid, resume, min_age_hours, t) ==
  \/ resume /\ grid.success
  \/ /\ min_age_hours # << >>
     /\ grid.last_updated # << >>
     /\ grid.last_updated[1] >= t - min_age_hours[1]

\* (mutant) a record that raises is not counted
ProcessReserveErrorUncounted(reserve_data, acc) == acc

\* One iteration of the loop of process_tile_reserves (lines 109-161).  The
\* shape of a record says how the body ends: "raises" before
\* update_or_create, "no-geometry" at `continue` (bbox_from_osm_geometry
\* returned None), "raises-after-upsert" in reserve.operators.set, "ok" after
\* the counters.
ProcessReserve(reserve_data, acc) ==
  CASE reserve_data.shape = "raises" ->
         [ acc EXCEPT !.errors = @ + 1 ]
    [] reserve_data.shape = "no-geometry" -> acc
    [] reserve_data.shape = "raises-after-upsert" ->
         [ acc EXCEPT !.errors = @ + 1,
                      !.store = @ \cup { reserve_data.id } ]
    [] OTHER ->
         IF reserve_data.id \in acc.store
           THEN [ acc EXCEPT !.updated = @ + 1 ]
           ELSE [ acc EXCEPT !.created = @ + 1,
                             !.store = @ \cup { reserve_data.id } ]

\* created_count = updated_count = error_count = 0 (lines 106-108)
NoCounts(store) ==
  [ created |-> 0, updated |-> 0, errors |-> 0, store |-> store ]

\* Command.process_tile_reserves from record i on: the counters and the table
RECURSIVE ProcessFrom(_, _, _)
ProcessFrom(reserves, i, acc) ==
  IF i > Len(reserves) THEN acc
  ELSE ProcessFrom(reserves, i + 1, ProcessReserve(reserves[i], acc))

\* Command.process_tile_reserves
ProcessTileReserves(reserves, store) ==
  ProcessFrom(reserves, 1, NoCounts(store))

\* (mutant) the earlier error message is left on the row
GridSucceededKeepsError(grid, number, t, created, updated) ==
  [ grid EXCEPT !.grid_number = number, !.last_updated = << t >>,
                !.reserves_created_count = created,
                !.reserves_updated_count = updated,
                !.success = TRUE ]

\* the row saved after a processed tile (gridded path, lines 416-422)
GridSucceeded(grid, number, t, created, updated) ==
  [ grid EXCEPT !.grid_number = number, !.last_updated = << t >>,
                !.reserves_created_count = created,
                !.reserves_updated_count = updated,
                !.success = TRUE, !.error_message = << >> ]

\* (mutant) the row of a tile whose fetch raised is saved as succeeded
GridRequestFailedAsSuccess(grid, number, t, text) ==
  [ grid EXCEPT !.grid_number = number, !.last_updated = << t >>,
                !.reserves_created_count = 0,
                !.reserves_updated_count = 0,
                !.success = TRUE, !.error_message = << text >> ]

\* the row saved after `except requests.exceptions.RequestException as e`
\* (gridded path, lines 432-438)
GridRequestFailed(grid, number, t, text) ==
  [ grid EXCEPT !.grid_number = number, !.last_updated = << t >>,
                !.reserves_created_count = 0,
                !.reserves_updated_count = 0,
                !.success = FALSE, !.error_message = << text >> ]

\* the row saved after `except Exception as e` (gridded path, lines 443-447)
GridFailed(grid, number, t, text) ==
  [ grid EXCEPT !.grid_number = number, !.last_updated = << t >>,
                !.success = FALSE, !.error_message = << text >> ]

\* the row saved by the single-grid path (lines 489-495)
SingleGridSucceeded(grid, t, created, updated) ==
  [ grid EXCEPT !.grid_number = 1, !.last_updated = << t >>,
                !.reserves_created_count = created,
                !.reserves_updated_count = updated,
                !.success = TRUE, !.error_message = << >> ]

\* the options before any run
NoOptions ==
  [ bbox |-> << 0, 0, 1, 1 >>, tile_size |-> << >>, resume |-> FALSE,
    min_age |-> << >>, clear |-> FALSE ]

\* handle, lines 339-365 and 457: --clear, then the choice of the path
StartImport(opts) ==
  /\ cpc = "idle"
  /\ options' = opts
  /\ nature_reserves' = IF opts.clear THEN {} ELSE nature_reserves
  /\ IF ShouldSplitBbox(opts.bbox, opts.tile_size)
       THEN /\ cpc' = "gridded"
            /\ tiles' = SplitBboxIntoTiles(opts.bbox, opts.tile_size)
       ELSE /\ cpc' = "single"
            /\ tiles' = << >>
  /\ tile_idx' = 0
  /\ processed' = 0
  /\ total_created' = 0
  /\ total_updated' = 0
  /\ total_errors' = 0
  /\ fetch_calls' = 0
  /\ tile_results' = << >>
  /\ output' = "Extracting nature reserves"
  /\ UNCHANGED << import_grids, import_grid_rows, now >>
  /\ UNCHANGED notCrawlVars

\* One iteration of `for tile_idx, tile_bbox in enumerate(tiles, 1)`
\* (lines 371-447); outcome is how extractor.extract ends if it is called.
GriddedTile(outcome) ==
  /\ cpc = "gridded"
  /\ tile_idx < Len(tiles)
  /\ LET number    == tile_idx + 1
         tile_bbox == tiles[number]
         grids     == GetOrCreate(import_grids, tile_bbox, number)
         grid      == grids[tile_bbox]
     IN  /\ import_grid_rows' = GetOrCreateRow(import_grid_rows, tile_bbox)
         /\ IF ShouldSkipGrid(grid, options.resume, options.min_age, now)
           THEN /\ import_grids' = grids
                /\ tile_results' = Append(tile_results, "skipped")
                /\ output' = "Skipping tile"
                /\ UNCHANGED << nature_reserves, processed, total_created,
                                total_updated, total_errors, fetch_calls >>
           ELSE /\ fetch_calls' = fetch_calls + 1
                /\ CASE outcome.kind = "reserves" ->
                          LET p == ProcessTileReserves(outcome.reserves,
                                                       nature_reserves)
                          IN  /\ nature_reserves' = p.store
                              /\ total_created' = total_created + p.created
                              /\ total_updated' = total_updated + p.updated
                              /\ total_errors' = total_errors + p.errors
                              /\ processed' = processed + 1
                              /\ import_grids' =
                                   Save(grids, tile_bbox,
                                        GridSucceeded(grid, number, now,
                                                      p.created, p.updated))
                              /\ tile_results' =
                                   Append(tile_results, "succeeded")
                              /\ output' = "Grid saved"
                     [] outcome.kind = "RequestException" ->
                          /\ import_grids' =
                               Save(grids, tile_bbox,
                                    GridRequestFailed(grid, number, now,
                                                      outcome.error))
                          /\ tile_results' = Append(tile_results, "failed")
                          /\ output' = "Error querying tile"
                          /\ UNCHANGED << nature_reserves, processed,
                                          total_created, total_updated,
                                          total_errors >>
                     [] OTHER ->
                          /\ import_grids' =
                               Save(grids, tile_bbox,
                                    GridFailed(grid, number, now,
                                               outcome.error))
                          /\ tile_results' = Append(tile_results, "failed")
                          /\ output' = "Tile error"
                          /\ UNCHANGED << nature_reserves, processed,
                                          total_created, total_updated,
                                          total_errors >>
  /\ tile_idx' = tile_idx + 1
  /\ UNCHANGED << now, cpc, options, tiles >>
  /\ UNCHANGED notCrawlVars

\* The end of the gridded path (lines 449-456): the summary is written and
\* handle returns.
GriddedSummary ==
  /\ cpc = "gridded"
  /\ tile_idx = Len(tiles)
  /\ cpc' = "returned"
  /\ output' = "Import complete (gridded)"
  /\ UNCHANGED << import_grids, import_grid_rows, nature_reserves, now,
                  options, tiles,
                  tile_idx, processed, total_created, total_updated,
                  total_errors, fetch_calls, tile_results >>
  /\ UNCHANGED notCrawlVars

\* The single-grid path (lines 457-516): the whole bbox as one tile.  An
\* exception out of extract() leaves the `else` branch for the handlers of the
\* outer `try` (lines 513-516), which only write the error.
SingleGrid(outcome) ==
  /\ cpc = "single"
  /\ LET bbox  == options.bbox
         grids == GetOrCreate(import_grids, bbox, 1)
         grid  == grids[bbox]
     IN  /\ import_grid_rows' = GetOrCreateRow(import_grid_rows, bbox)
         /\ IF ShouldSkipGrid(grid, options.resume, options.min_age, now)
           THEN /\ import_grids' = grids
                /\ output' = "Skipping single grid"
                /\ UNCHANGED << nature_reserves, processed, total_created,
                                total_updated, total_errors, fetch_calls >>
           ELSE /\ fetch_calls' = fetch_calls + 1
                /\ CASE outcome.kind = "reserves" ->
                          LET p == ProcessTileReserves(outcome.reserves,
                                                       nature_reserves)
                          IN  /\ nature_reserves' = p.store
                              /\ total_created' = p.created
                              /\ total_updated' = p.updated
                              /\ total_errors' = p.errors
                              /\ import_grids' =
                                   Save(grids, bbox,
                                        SingleGridSucceeded(grid, now,
                                                            p.created,
                                                            p.updated))
                              /\ output' = "Import complete"
                              /\ UNCHANGED processed
                     [] outcome.kind = "RequestException" ->
                          /\ import_grids' = grids
                          /\ output' = "Error querying Overpass API"
                          /\ UNCHANGED << nature_reserves, processed,
                                          total_created, total_updated,
                                          total_errors >>
                     [] OTHER ->
                          /\ import_grids' = grids
                          /\ output' = "Error"
                          /\ UNCHANGED << nature_reserves, processed,
                                          total_created, total_updated,
                                          total_errors >>
  /\ cpc' = "returned"
  /\ UNCHANGED << now, options, tiles, tile_idx, tile_results >>
  /\ UNCHANGED notCrawlVars

\* handle returns: its locals are gone, the Store stays.
Return ==
  /\ cpc = "returned"
  /\ cpc' = "idle"
  /\ options' = NoOptions
  /\ tiles' = << >>
  /\ tile_idx' = 0
  /\ processed' = 0
  /\ total_created' = 0
  /\ total_updated' = 0
  /\ total_errors' = 0
  /\ fetch_calls' = 0
  /\ tile_results' = << >>
  /\ output' = ""
  /\ UNCHANGED << import_grids, import_grid_rows, nature_reserves, now >>
  /\ UNCHANGED notCrawlVars

\* An hour passes.
Tick ==
  /\ now < MaxClock
  /\ now' = now + 1
  /\ UNCHANGED << import_grids, import_grid_rows, nature_reserves, cpc,
                  options, tiles,
                  tile_idx, processed, total_created, total_updated,
                  total_errors, fetch_calls, tile_results, output >>
  /\ UNCHANGED notCrawlVars

\* ------------------------------------------------------- specifications

\* a new ServerManager and no query_overpass call yet
FetchAtRest(list) ==
  /\ servers = list
  /\ server_index = 0
  /\ server_failures = [ s \in Range(list) |-> 0 ]
  /\ successful_requests_since_skip = 0
  /\ fpc = "idle"
  /\ servers_to_try = << >>
  /\ attempt = 0
  /\ idx = 1
  /\ result = NoResult
  /\ tried = << >>
  /\ slept = << >>
  /\ recorded = [ s \in Range(list) |-> 0 ]
  /\ reset_announced = FALSE
  /\ calls = 0
  /\ last_lists = << >>

\* an empty Store and no run of the import command yet
CrawlAtRest ==
  /\ import_grids = << >>
  /\ import_grid_rows = << >>
  /\ nature_reserves = {}
  /\ now = 0
  /\ cpc = "idle"
  /\ options = NoOptions
  /\ tiles = << >>
  /\ tile_idx = 0
  /\ processed = 0
  /\ total_created = 0
  /\ total_updated = 0
  /\ total_errors = 0
  /\ fetch_calls = 0
  /\ tile_results = << >>
  /\ output = ""

\* no call of process_tile_reserves of its own
ProcessAtRest ==
  /\ ppc = "returned"
  /\ reserves_arg = << >>
  /\ store_before = {}
  /\ record_idx = 0
  /\ counts = NoCounts({})

\* no call of the tiler of its own
TilerAtRest ==
  /\ tpc = "returned"
  /\ bbox_arg = << 0, 0, 0, 0 >>
  /\ tile_size_arg = << >>
  /\ split_result = FALSE
  /\ tiles_result = << >>

\* no call of the geometry functions of its own
NoGeometry == [ type |-> "Polygon", coordinates |-> << >> ]

GeometryAtRest ==
  /\ gpc = "returned"
  /\ geom_arg = NoGeometry
  /\ lon_arg = 0
  /\ lat_arg = 0
  /\ inside_result = FALSE
  /\ area_result = 0

\* no point query
NoParams ==
  [ lon |-> 0, lat |-> 0, source |-> << >>, operator |-> << >>,
    protection_level |-> << >> ]

QueryAtRest ==
  /\ qpc = "returned"
  /\ reserve_rows = << >>
  /\ params = NoParams
  /\ reserves_bbox = << >>
  /\ response = << >>

\* no call of parse_elements of its own
RelationAtRest ==
  /\ epc = "returned"
  /\ data_elements = << >>
  /\ relation_geometry = << >>
  /\ parsed_reserves = << >>

\* no import into nature_reserves
NoImportCounts == [ created |-> 0, updated |-> 0, other |-> 0 ]

StoreAtRest ==
  /\ table = {}
  /\ written_by = << >>
  /\ last_import = "none"
  /\ batch = << >>
  /\ import_counts = NoImportCounts

\* no run of the import command beside another
Workers == { "w1", "w2" }

WorkersAtRest ==
  /\ grid_table = << >>
  /\ resume_option = FALSE
  /\ wpc = [ w \in Workers |-> "returned" ]
  /\ wtile = [ w \in Workers |-> 0 ]
  /\ wgrid = [ w \in Workers |-> NewGrid(0) ]

\* no record being given a bbox
BboxAtRest ==
  /\ bpc = "asked"
  /\ raw_geometry = [ form |-> "None" ]
  /\ stored_bbox = << >>
  /\ point_arg = << 0, 0 >>
  /\ in_bbox = FALSE
  /\ in_geometry = FALSE

\* no call of split_bbox_into_tiles under way
SplitAtRest ==
  /\ spc = "returned"
  /\ split_bbox = << 0, 0, 0, 0 >>
  /\ split_size = << >>
  /\ split_lat = 0
  /\ split_lon = 0
  /\ split_max_lat = 0
  /\ split_tiles = << >>

LaterAtRest ==
  /\ RelationAtRest
  /\ StoreAtRest
  /\ WorkersAtRest
  /\ BboxAtRest
  /\ SplitAtRest

\* the state of every earlier section at rest, the fetch client on its
\* default endpoints
EarlierAtRest ==
  /\ FetchAtRest(DEFAULT_SERVERS)
  /\ mock = FALSE
  /\ CrawlAtRest
  /\ ProcessAtRest
  /\ TilerAtRest
  /\ GeometryAtRest
  /\ QueryAtRest

Init ==
  /\ \E list \in ServerLists : FetchAtRest(list)
  /\ mock \in (IF Len(servers) = 2 THEN BOOLEAN ELSE { FALSE })
  /\ CrawlAtRest
  /\ ProcessAtRest
  /\ TilerAtRest
  /\ GeometryAtRest
  /\ QueryAtRest
  /\ LaterAtRest

Next ==
  \/ CallQueryOverpass
  \/ \E resp \in Responses : Request(resp)

Spec == Init /\ [][Next]_vars

InitCrawl ==
  /\ FetchAtRest(DEFAULT_SERVERS)
  /\ mock = FALSE
  /\ CrawlAtRest
  /\ ProcessAtRest
  /\ TilerAtRest
  /\ GeometryAtRest
  /\ QueryAtRest
  /\ LaterAtRest

NextCrawl ==
  \/ \E opts \in Options : StartImport(opts)
  \/ \E outcome \in ExtractOutcomes : GriddedTile(outcome)
  \/ GriddedSummary
  \/ \E outcome \in ExtractOutcomes : SingleGrid(outcome)
  \/ Return
  \/ Tick

SpecCrawl == InitCrawl /\ [][NextCrawl]_vars

\* One call of process_tile_reserves, on any list of records and any table.
RecordIds == { "way_1", "way_2" }
RecordShapes == { "ok", "no-geometry", "raises", "raises-after-upsert" }
RecordData == [ id : RecordIds, shape : RecordShapes ]
RecordLists == UNION { [ 1..n -> RecordData ] : n \in 0..MaxRecords }

\* the body of the `for` loop, once
ProcessNext ==
  /\ ppc = "loop"
  /\ record_idx < Len(reserves_arg)
  /\ counts' = ProcessReserve(reserves_arg[record_idx + 1], counts)
  /\ record_idx' = record_idx + 1
  /\ UNCHANGED << ppc, reserves_arg, store_before >>
  /\ UNCHANGED notProcessVars

\* return created_count, updated_count, error_count
ProcessReturn ==
  /\ ppc = "loop"
  /\ record_idx = Len(reserves_arg)
  /\ ppc' = "returned"
  /\ UNCHANGED << reserves_arg, store_before, record_idx, counts >>
  /\ UNCHANGED notProcessVars

InitProcess ==
  /\ FetchAtRest(DEFAULT_SERVERS)
  /\ mock = FALSE
  /\ CrawlAtRest
  /\ ppc = "loop"
  /\ reserves_arg \in RecordLists
  /\ store_before \in SUBSET RecordIds
  /\ record_idx = 0
  /\ counts = NoCounts(store_before)
  /\ TilerAtRest
  /\ GeometryAtRest
  /\ QueryAtRest
  /\ LaterAtRest

NextProcess ==
  \/ ProcessNext
  \/ ProcessReturn

SpecProcess == InitProcess /\ [][NextProcess]_vars

\* One call of should_split_bbox and of split_bbox_into_tiles on the same
\* arguments.  The boxes lie on both sides of the equator and of the
\* prime meridian, and above 60 degrees of latitude (6660 units), where a
\* tile is twice as many degrees wide; their spans go from 0 to MaxSpan.
\* Tile sizes are positive: with a tile size of 0 or less the loops of
\* split_bbox_into_tiles do not end.
TilerBBoxes ==
  { << x, y, x + w, y + h >> :
      x \in { -1, 1 }, y \in { -1, 6660 }, w \in 0..MaxSpan, h \in 0..MaxSpan }
TilerTileSizes == { << >> } \cup { << km >> : km \in 1..MaxTileKm }

CallTiler ==
  /\ tpc = "called"
  /\ split_result' = ShouldSplitBbox(bbox_arg, tile_size_arg)
  /\ tiles_result' = SplitBboxIntoTiles(bbox_arg, tile_size_arg)
  /\ tpc' = "returned"
  /\ UNCHANGED << bbox_arg, tile_size_arg >>
  /\ UNCHANGED notTilerVars

InitTiler ==
  /\ FetchAtRest(DEFAULT_SERVERS)
  /\ mock = FALSE
  /\ CrawlAtRest
  /\ ProcessAtRest
  /\ tpc = "called"
  /\ bbox_arg \in TilerBBoxes
  /\ tile_size_arg \in TilerTileSizes
  /\ split_result = FALSE
  /\ tiles_result = << >>
  /\ GeometryAtRest
  /\ QueryAtRest
  /\ LaterAtRest

NextTiler == CallTiler

SpecTiler == InitTiler /\ [][NextTiler]_vars

\* One call of point_in_geojson_geometry and of geojson_geometry_area.
\* The rings are rectangles with even corners, closed as GeoJSON rings are,
\* in both directions; the points have odd coordinates, so none is on an
\* edge.  The square of the test in tests.py (lines 490-512) and its two
\* points are among them, in hundredths of a degree.
RectRing(r) ==
  << << r[1], r[2] >>, << r[1], r[4] >>, << r[3], r[4] >>, << r[3], r[2] >>,
     << r[1], r[2] >> >>
Reversed(ring) == [ i \in 1..Len(ring) |-> ring[Len(ring) + 1 - i] ]

TestSquare == RectRing(<< 519, 5209, 521, 5211 >>)
OuterRings == { RectRing(<< 0, 0, 6, 6 >>), Reversed(RectRing(<< 2, 2, 8, 8 >>)) }
HoleRings == { RectRing(<< 2, 2, 4, 4 >>), Reversed(RectRing(<< 4, 0, 6, 4 >>)) }
HoleLists ==
  { << >> } \cup { << h >> : h \in HoleRings }
    \cup { hh \in HoleRings \X HoleRings : hh[1] # hh[2] }
PolygonCoordinates ==
  { << o >> \o holes : o \in OuterRings, holes \in HoleLists }
    \cup { << TestSquare >> }
Geometries ==
  { [ type |-> "Polygon", coordinates |-> c ] : c \in PolygonCoordinates }
    \cup { [ type |-> "MultiPolygon", coordinates |-> m ] :
             m \in UNION { [ 1..n -> PolygonCoordinates ] : n \in 1..MaxPolygons } }
    \cup { NoGeometry,
           [ type |-> "LineString", coordinates |-> RectRing(<< 0, 0, 6, 6 >>) ] }
Lons == { -1, 1, 3, 5, 7, 9, 520, 530 }
Lats == { -1, 1, 3, 5, 7, 9, 5210 }

CallGeometry ==
  /\ gpc = "called"
  /\ inside_result' = PointInGeojsonGeometry(lon_arg, lat_arg, geom_arg)
  /\ area_result' = GeojsonGeometryArea(geom_arg)
  /\ gpc' = "returned"
  /\ UNCHANGED << geom_arg, lon_arg, lat_arg >>
  /\ UNCHANGED notGeometryVars

InitGeometry ==
  /\ FetchAtRest(DEFAULT_SERVERS)
  /\ mock = FALSE
  /\ CrawlAtRest
  /\ ProcessAtRest
  /\ TilerAtRest
  /\ gpc = "called"
  /\ geom_arg \in Geometries
  /\ lon_arg \in Lons
  /\ lat_arg \in Lats
  /\ inside_result = FALSE
  /\ area_result = 0
  /\ QueryAtRest
  /\ LaterAtRest

NextGeometry == CallGeometry

SpecGeometry == InitGeometry /\ [][NextGeometry]_vars

\* One request of at_point on a table of up to MaxStored rows.  The rows
\* are taken from a list of reserves of the kinds the importer stores: a
\* large square, a small square inside it, the large square with the small
\* one as a hole, a row without geometry, a row whose stored bbox is away
\* from its geometry, a row whose stored bbox has the point on its edge, a
\* MultiPolygon and a polygon whose inner ring is larger than its outer
\* ring.  Two rows have the same area.
Row(id, bbox, source, operators, protect_class, geometry) ==
  [ id |-> id, bbox |-> bbox, source |-> source, operators |-> operators,
    protect_class |-> protect_class, geometry |-> geometry ]
LargeSquare == [ type |-> "Polygon", coordinates |-> << RectRing(<< 0, 0, 6, 6 >>) >> ]
SmallSquare == [ type |-> "Polygon", coordinates |-> << RectRing(<< 2, 2, 4, 4 >>) >> ]
SquareWithHole ==
  [ type |-> "Polygon",
    coordinates |-> << RectRing(<< 0, 0, 6, 6 >>), RectRing(<< 2, 2, 4, 4 >>) >> ]
TwoSquares ==
  [ type |-> "MultiPolygon",
    coordinates |-> << << RectRing(<< 2, 2, 4, 4 >>) >>,
                       << RectRing(<< 4, 4, 6, 6 >>) >> >> ]
LargeHole ==
  [ type |-> "Polygon",
    coordinates |-> << RectRing(<< 2, 2, 4, 4 >>),
                       Reversed(RectRing(<< 6, 6, 10, 10 >>)) >> ]
StoredReserves ==
  { Row("way_1", << 0, 0, 6, 6 >>, "osm", { 1 }, << "1" >>, << LargeSquare >>),
    Row("way_2", << 2, 2, 4, 4 >>, "osm", {}, << >>, << SmallSquare >>),
    Row("relation_3", << 0, 0, 6, 6 >>, "wdpa", { 1, 2 }, << "7" >>,
        << SquareWithHole >>),
    Row("way_4", << 0, 0, 6, 6 >>, "osm", { 1 }, << "1" >>, << >>),
    Row("way_5", << 8, 8, 9, 9 >>, "osm", { 1 }, << "1" >>, << LargeSquare >>),
    Row("way_6", << 3, 3, 6, 6 >>, "wdpa", { 2 }, << "1a" >>, << LargeSquare >>),
    Row("relation_7", << 2, 2, 6, 6 >>, "osm", {}, << "99" >>, << TwoSquares >>),
    Row("relation_8", << 2, 2, 4, 4 >>, "wdpa", {}, << "1" >>, << LargeHole >>) }
Tables ==
  { t \in UNION { [ 1..n -> StoredReserves ] : n \in 0..MaxStored } :
      \A i, j \in 1..Len(t) : t[i].id = t[j].id => i = j }
QueryPoints == { << 1, 1 >>, << 3, 3 >>, << 5, 5 >>, << 7, 7 >> }
QueryParams ==
  { [ lon |-> pt[1], lat |-> pt[2], source |-> src, operator |-> op,
      protection_level |-> lvl ] :
      pt \in QueryPoints, src \in { << >>, << "osm" >>, << "wdpa" >> },
      op \in { << >>, << "1" >>, << "abc" >> },
      lvl \in { << >>, << "strict" >>, << "other" >> } }

\* NatureReserveViewSet.at_point with lat and lon given as numbers
AtPoint ==
  /\ qpc = "called"
  /\ reserves_bbox' = ReservesBbox(reserve_rows, params)
  /\ response' = SortedByArea(Containing(ReservesBbox(reserve_rows, params), params))
  /\ qpc' = "returned"
  /\ UNCHANGED << reserve_rows, params >>
  /\ UNCHANGED notQueryVars

InitQuery ==
  /\ FetchAtRest(DEFAULT_SERVERS)
  /\ mock = FALSE
  /\ CrawlAtRest
  /\ ProcessAtRest
  /\ TilerAtRest
  /\ GeometryAtRest
  /\ qpc = "called"
  /\ reserve_rows \in Tables
  /\ params \in QueryParams
  /\ reserves_bbox = << >>
  /\ response = << >>
  /\ LaterAtRest

NextQuery == AtPoint

SpecQuery == InitQuery /\ [][NextQuery]_vars

\* One call of parse_elements on a relation followed by way and node
\* elements of the same batch.  The relation has up to MaxMembers members:
\* ways of role outer or inner with ref 1 or 2, with or without embedded
\* geometry, a way without role, a way without ref and a node.  The ring
\* embedded in a member of ref r is << 10 + r >>, the ring of the sibling
\* way r is << 20 + r >>, so that the place a ring came from shows.
Member(type, ref, role, geometry) ==
  [ type |-> type, ref |-> ref, role |-> role, geometry |-> geometry ]
Element(type, id, tags, geometry, members) ==
  [ type |-> type, id |-> id, tags |-> tags, geometry |-> geometry,
    members |-> members ]
MemberKinds ==
  { Member("way", << r >>, role, IF embedded THEN << << 10 + r >> >> ELSE << >>) :
      r \in 1..2, role \in { "outer", "inner" }, embedded \in BOOLEAN }
    \cup { Member("way", << 1 >>, "", << << 11 >> >>),
           Member("way", << >>, "outer", << << 11 >> >>),
           Member("way", << 2 >>, "outer", << << >> >>),
           Member("node", << 1 >>, "outer", << >>) }
MemberLists == UNION { [ 1..n -> MemberKinds ] : n \in 0..MaxMembers }
SiblingLists ==
  { << >>,
    << Element("way", << 1 >>, FALSE, << << 21 >> >>, << >>) >>,
    << Element("node", << 2 >>, FALSE, << >>, << >>),
       Element("way", << 1 >>, TRUE, << << 21 >> >>, << >>),
       Element("way", << 2 >>, FALSE, << << 22 >> >>, << >>) >>,
    << Element("way", << 1 >>, TRUE, << >>, << >>),
       Element("way", << 2 >>, TRUE, << << >> >>, << >>) >> }

ParseElementsCall ==
  /\ epc = "called"
  /\ relation_geometry' = ExtractRelationGeometry(data_elements[1], data_elements)
  /\ parsed_reserves' = ParseElements(data_elements)
  /\ epc' = "returned"
  /\ UNCHANGED data_elements
  /\ UNCHANGED notRelationVars

InitRelation ==
  /\ EarlierAtRest
  /\ SplitAtRest
  /\ BboxAtRest
  /\ WorkersAtRest
  /\ StoreAtRest
  /\ epc = "called"
  /\ \E members \in MemberLists, siblings \in SiblingLists :
       data_elements
         = << Element("relation", << 7 >>, TRUE, << >>, members) >> \o siblings
  /\ relation_geometry = << >>
  /\ parsed_reserves = << >>

NextRelation == ParseElementsCall

SpecRelation == InitRelation /\ [][NextRelation]_vars

\* Imports into one table, one after the other, by the crawl (the records
\* parse_elements made of the elements of a response) and by the shapefile
\* import.  An element id is a number, as Overpass sends it, or a string,
\* which parse_elements takes as it is.
OsmElements ==
  { [ type |-> "way", id |-> [ number |-> << 1 >>, text |-> << >> ] ],
    [ type |-> "way", id |-> [ number |-> << >>, text |-> << "wdpa_1" >> ] ] }
OsmRecords ==
  { [ id |-> ElementIdStr(e.type, e.id), data |-> d, has_geometry |-> TRUE ] :
      e \in OsmElements, d \in { "a", "b" } }
    \cup { [ id |-> "way_1", data |-> "a", has_geometry |-> FALSE ] }
ShapeRecords ==
  { [ site_id |-> "1", data |-> d, has_bbox |-> TRUE ] : d \in { "a", "b" } }
    \cup { [ site_id |-> "0", data |-> "a", has_bbox |-> TRUE ],
           [ site_id |-> "1", data |-> "a", has_bbox |-> FALSE ] }
OsmBatches == UNION { [ 1..n -> OsmRecords ] : n \in 0..MaxBatch }
ShapeBatches == UNION { [ 1..n -> ShapeRecords ] : n \in 0..MaxBatch }

\* the history of who created the row of each id
WrittenBy(history, rows, importer) ==
  [ id \in { row.id : row \in rows } |->
      IF id \in DOMAIN history THEN history[id] ELSE importer ]

\* Command.process_tile_reserves on the records of a crawl
OsmImport(reserves) ==
  LET done == OsmImportFrom(reserves, 1,
                            [ table |-> table, counts |-> NoImportCounts ])
  IN  /\ table' = done.table
      /\ import_counts' = done.counts
      /\ written_by' = WrittenBy(written_by, done.table, "osm")
      /\ last_import' = "osm"
      /\ batch' = reserves
      /\ UNCHANGED notStoreVars

\* Command._process_shard of import_protectedplanet on the records of a layer
WdpaImport(shape_records) ==
  LET done == WdpaImportFrom(shape_records, 1,
                             [ table |-> table, counts |-> NoImportCounts ])
  IN  /\ table' = done.table
      /\ import_counts' = done.counts
      /\ written_by' = WrittenBy(written_by, done.table, "wdpa")
      /\ last_import' = "wdpa"
      /\ batch' = shape_records
      /\ UNCHANGED notStoreVars

\* Command.handle of import_nature_reserves with --clear, before the crawl:
\* NatureReserve.objects.all().delete()
OsmClear ==
  /\ table' = {}
  /\ written_by' = << >>
  /\ last_import' = "osm --clear"
  /\ batch' = << >>
  /\ import_counts' = NoImportCounts
  /\ UNCHANGED notStoreVars

InitStore ==
  /\ EarlierAtRest
  /\ SplitAtRest
  /\ BboxAtRest
  /\ WorkersAtRest
  /\ RelationAtRest
  /\ StoreAtRest

NextStore ==
  \/ \E reserves \in OsmBatches : OsmImport(reserves)
  \/ \E shape_records \in ShapeBatches : WdpaImport(shape_records)
  \/ OsmClear

SpecStore == InitStore /\ [][NextStore]_vars

\* Two runs of the import command at the same time on the same area, each
\* on the gridded path of Command.handle (lines 371-447).  A run reads the
\* row of its next tile (get_or_create, should_skip_grid), and later, when
\* extract and process_tile_reserves are over, saves the row it read with
\* the outcome; the steps of the other run come in between.
WorkerTiles ==
  SubSeq(<< << 0, 0, 1, 1 >>, << 1, 0, 2, 1 >>, << 2, 0, 3, 1 >>,
            << 3, 0, 4, 1 >> >>, 1, MaxWorkerTiles)

\* lines 372-394: the row of the next tile, and whether the tile is skipped
WorkerNextTile(w) ==
  /\ wpc[w] = "next"
  /\ wtile[w] < Len(WorkerTiles)
  /\ LET number    == wtile[w] + 1
         tile_bbox == WorkerTiles[number]
         grids     == GetOrCreate(grid_table, tile_bbox, number)
         grid      == grids[tile_bbox]
     IN  /\ grid_table' = grids
         /\ IF ShouldSkipGrid(grid, resume_option, << >>, 0)
              THEN /\ wtile' = [ wtile EXCEPT ![w] = number ]
                   /\ UNCHANGED << wpc, wgrid >>
              ELSE /\ wpc' = [ wpc EXCEPT ![w] = "processing" ]
                   /\ wgrid' = [ wgrid EXCEPT ![w] = grid ]
                   /\ UNCHANGED wtile
  /\ UNCHANGED resume_option
  /\ UNCHANGED notWorkersVars

\* lines 399-438: extract and process_tile_reserves are over, grid.save()
\* writes the row the run holds
WorkerSaveTile(w, kind) ==
  /\ wpc[w] = "processing"
  /\ LET number    == wtile[w] + 1
         tile_bbox == WorkerTiles[number]
     IN  grid_table' =
           Save(grid_table, tile_bbox,
                IF kind = "reserves"
                  THEN GridSucceeded(wgrid[w], number, 0, 0, 0)
                  ELSE GridRequestFailed(wgrid[w], number, 0, "EndpointsExhausted"))
  /\ wtile' = [ wtile EXCEPT ![w] = @ + 1 ]
  /\ wpc' = [ wpc EXCEPT ![w] = "next" ]
  /\ UNCHANGED << resume_option, wgrid >>
  /\ UNCHANGED notWorkersVars

\* lines 449-456: the summary
WorkerReturn(w) ==
  /\ wpc[w] = "next"
  /\ wtile[w] = Len(WorkerTiles)
  /\ wpc' = [ wpc EXCEPT ![w] = "returned" ]
  /\ UNCHANGED << grid_table, resume_option, wtile, wgrid >>
  /\ UNCHANGED notWorkersVars

InitWorkers ==
  /\ EarlierAtRest
  /\ SplitAtRest
  /\ BboxAtRest
  /\ RelationAtRest
  /\ StoreAtRest
  /\ grid_table = << >>
  /\ resume_option \in BOOLEAN
  /\ wpc = [ w \in Workers |-> "next" ]
  /\ wtile = [ w \in Workers |-> 0 ]
  /\ wgrid = [ w \in Workers |-> NewGrid(0) ]

NextWorkers ==
  \/ \E w \in Workers : WorkerNextTile(w)
  \/ \E w \in Workers, kind \in { "reserves", "RequestException" } :
       WorkerSaveTile(w, kind)
  \/ \E w \in Workers : WorkerReturn(w)

SpecWorkers == InitWorkers /\ [][NextWorkers]_vars

\* The bbox of one record at import (process_tile_reserves, lines 113-125
\* and 143-146) and the bbox test of one at_point request on the row.  The
\* rings are those of the geometry calls, rings left open, a triangle and
\* a ring of two points; the points are on and off the edges.
Opened(ring) == SubSeq(ring, 1, Len(ring) - 1)
Triangle == << << 0, 0 >>, << 6, 0 >>, << 0, 6 >> >>
BboxRings ==
  OuterRings \cup { Opened(RectRing(<< 0, 0, 6, 6 >>)), Triangle,
                    << << 0, 0 >>, << 6, 6 >> >> }
BboxHoleLists ==
  { << >>, << RectRing(<< 2, 2, 4, 4 >>) >>, << RectRing(<< 6, 6, 9, 9 >>) >> }
RawLists ==
  { [ form |-> "list", nesting |-> 1, points |-> p, value |-> ring ] :
      p \in { "dict", "list" }, ring \in BboxRings }
    \cup { [ form |-> "list", nesting |-> 2, points |-> p,
             value |-> << ring >> \o holes ] :
             p \in { "dict", "list" }, ring \in BboxRings, holes \in BboxHoleLists }
    \cup { [ form |-> "list", nesting |-> 3, points |-> "dict", value |-> m ] :
             m \in UNION { [ 1..n -> { << ring >> : ring \in OuterRings } ] :
                             n \in 1..MaxPolygons } }
    \cup { [ form |-> "list", nesting |-> 1, points |-> "dict", value |-> << >> ] }
RawGeometries ==
  { [ form |-> "None" ] } \cup RawLists
    \cup { [ form |-> "geojson", geom |-> g ] : g \in Geometries }
BboxPoints == { -1, 0, 1, 3, 6, 8, 9 } \X { -1, 0, 1, 3, 6, 8, 9 }

\* lines 113-125: the bbox of the record, or the record is skipped
ImportBbox ==
  /\ bpc = "import"
  /\ stored_bbox' = BboxFromOsmGeometry(raw_geometry)
  /\ bpc' = IF stored_bbox' = << >> THEN "skipped" ELSE "stored"
  /\ UNCHANGED << raw_geometry, point_arg, in_bbox, in_geometry >>
  /\ UNCHANGED notBboxVars

\* views.py lines 161-170 and 191-201: the bbox filter on the row, and the
\* test of its geometry
AtPointOnRow ==
  /\ bpc = "stored"
  /\ in_bbox' = BboxQuery([ bbox |-> stored_bbox[1] ], point_arg[1], point_arg[2])
  /\ in_geometry' =
       /\ GeojsonOfRaw(raw_geometry) # << >>
       /\ PointInGeojsonGeometry(point_arg[1], point_arg[2],
                                 GeojsonOfRaw(raw_geometry)[1])
  /\ bpc' = "asked"
  /\ UNCHANGED << raw_geometry, stored_bbox, point_arg >>
  /\ UNCHANGED notBboxVars

InitBbox ==
  /\ EarlierAtRest
  /\ SplitAtRest
  /\ RelationAtRest
  /\ StoreAtRest
  /\ WorkersAtRest
  /\ bpc = "import"
  /\ raw_geometry \in RawGeometries
  /\ stored_bbox = << >>
  /\ point_arg \in BboxPoints
  /\ in_bbox = FALSE
  /\ in_geometry = FALSE

NextBbox == ImportBbox \/ AtPointOnRow

SpecBbox == InitBbox /\ [][NextBbox]_vars

\* One call of split_bbox_into_tiles, an iteration of a loop at a time, for
\* the tile sizes --tile-size lets through (type=float: any number, here
\* negative, zero and positive ones, and None for the default).  The list
\* `tiles` holds at most MaxTiles tiles, more than any split of these boxes
\* by a positive size has; a call that would append to a full list is out
\* of memory and goes no further, and current_lat is followed no further
\* than MaxTiles below min_lat.
SplitBBoxes ==
  { << 0, lat, lon_span, lat + lat_span >> :
      lat \in { 0, 6660 }, lon_span \in 0..MaxSpan, lat_span \in 0..MaxSpan }
SplitTileSizes == { << >> } \cup { << km >> : km \in (-1)..MaxTileKm }
MaxTiles == (MaxSpan + 1) * (MaxSpan + 1)
SplitDegrees ==
  CalculateTileSizeDegrees(split_bbox[2] + split_bbox[4], split_size)

\* lines 66-68 and 72: the test of `while split_lat < max_lat`, the first
\* two statements of its body, and `return tiles`
SplitOuter ==
  /\ spc = "outer"
  /\ IF split_lat < split_bbox[4]
       THEN /\ split_max_lat' = Min(split_lat + SplitDegrees[2], split_bbox[4])
            /\ split_lon' = split_bbox[1]
            /\ spc' = "inner"
       ELSE /\ spc' = "returned"
            /\ UNCHANGED << split_max_lat, split_lon >>
  /\ UNCHANGED << split_bbox, split_size, split_lat, split_tiles >>
  /\ UNCHANGED notSplitVars

\* lines 69-73: the test of `while split_lon < max_lon` and its body, or
\* the last statement of the outer body
SplitInner ==
  /\ spc = "inner"
  /\ IF split_lon < split_bbox[3]
       THEN /\ Len(split_tiles) < MaxTiles
            /\ split_tiles' =
                 Append(split_tiles,
                        << split_lon, split_lat,
                           Min(split_lon + SplitDegrees[1], split_bbox[3]),
                           split_max_lat >>)
            /\ split_lon' = split_lon + SplitDegrees[1]
            /\ UNCHANGED << spc, split_lat >>
       ELSE /\ split_lat + SplitDegrees[2] >= split_bbox[2] - MaxTiles
            /\ split_lat' = split_lat + SplitDegrees[2]
            /\ spc' = "outer"
            /\ UNCHANGED << split_lon, split_tiles >>
  /\ UNCHANGED << split_bbox, split_size, split_max_lat >>
  /\ UNCHANGED notSplitVars

\* lines 59-65: the arguments, and the locals before the loop
InitSplit ==
  /\ EarlierAtRest
  /\ RelationAtRest
  /\ StoreAtRest
  /\ WorkersAtRest
  /\ BboxAtRest
  /\ spc = "outer"
  /\ split_bbox \in SplitBBoxes
  /\ split_size \in SplitTileSizes
  /\ split_lat = split_bbox[2]
  /\ split_lon = 0
  /\ split_max_lat = 0
  /\ split_tiles = << >>

NextSplit == SplitOuter \/ SplitInner

\* the interpreter runs the next statement of a call that is under way
SpecSplit == InitSplit /\ [][NextSplit]_vars /\ WF_vars(NextSplit)

\* ------------------------------------------------- properties of the fetch

\* the list repeated n times
Repeat(list, n) ==
  [ i \in 1..(n * Len(list)) |-> list[((i - 1) % Len(list)) + 1] ]

IsPrefix(a, b) == Len(a) <= Len(b) /\ SubSeq(b, 1, Len(a)) = a

\* the call in progress has reached the last endpoint of the last attempt
AtLastRequest == attempt = MaxRetries - 1 /\ idx = Len(servers_to_try)

CallEnded == fpc = "idle" /\ tried # << >>

CallRaised == CallEnded /\ result.kind # "data"

\* C4: a fetch call in which every request fails posts the query exactly
\* MaxRetries * (number of available endpoints) times, every attempt going
\* through the available endpoints once in rotated order, and then raises;
\* a call never posts more than that, ends only with parsed data or an error,
\* and when the last failure is a 504, 429, 503, malformed 200 body or
\* timeout the error is the endpoints-exhausted error naming MaxRetries
\* attempts and the number of endpoints tried.
C4_ExhaustedAfterAllAttempts ==
  /\ [](/\ IsPrefix(tried, Repeat(servers_to_try, MaxRetries))
        /\ (CallEnded => result.kind \in { "data", "HTTPError",
                                            "ConnectionError",
                                            "EndpointsExhausted" })
        /\ (CallRaised => tried = Repeat(servers_to_try, MaxRetries)))
  /\ [][ \A resp \in Responses \ {OkResponse} :
           Request(resp) =>
             /\ result'.kind # "data"
             /\ (fpc' = "idle" => AtLastRequest)
             /\ (AtLastRequest => fpc' = "idle")
             /\ (AtLastRequest /\ resp \in SoftFailures =>
                   result' = [ NoResult EXCEPT
                                 !.kind = "EndpointsExhausted",
                                 !.attempts = MaxRetries,
                                 !.nservers = Len(servers_to_try) ]) ]_vars

\* C4 witness: a call over two endpoints ended with the exhausted error
\* after MaxRetries * 2 requests.
C4_Witness ==
  /\ CallEnded
  /\ result.kind = "EndpointsExhausted"
  /\ Len(servers_to_try) = 2
  /\ Len(tried) = MaxRetries * 2

\* C5: every failed request adds exactly 1 to the failure counter of the
\* endpoint it was sent to and leaves every other counter alone, and unless
\* it was the last endpoint of the last attempt the call goes on with the
\* next endpoint.
C5_FailureCountsOnce ==
  [][ \A resp \in Responses \ {OkResponse} :
        Request(resp) =>
          /\ server_failures' =
               [ server_failures EXCEPT ![servers_to_try[idx]] = @ + 1 ]
          /\ (~AtLastRequest =>
                /\ fpc' = "loop"
                /\ idx' = (idx % Len(servers_to_try)) + 1) ]_vars

\* C6 as stated: a 400-class response ends the call at once with a client
\* error that carries the query text.
C6_ClientErrorIsFatal ==
  [][ \A resp \in { "400", "404" } :
        Request(resp) =>
          /\ fpc' = "idle"
          /\ result'.kind = "HTTPError"
          /\ result'.has_query ]_vars

\* C6 amended: a response with any status other than 200, 504, 429 and 503
\* (the 400-class included) ends the call only when it answers the last
\* endpoint of the last attempt, with an HTTPError naming the status, which
\* carries the query text exactly when the status is 400; in every other
\* position the call goes on with the next endpoint or attempt.
C6_ClientErrorFatalOnlyAtLastRequest ==
  [][ \A resp \in OtherStatus :
        Request(resp) =>
          IF AtLastRequest
            THEN /\ fpc' = "idle"
                 /\ result' = [ NoResult EXCEPT
                                  !.kind = "HTTPError",
                                  !.server = servers_to_try[idx],
                                  !.status = resp,
                                  !.has_query = (resp = "400") ]
            ELSE /\ fpc' = "loop"
                 /\ result' = NoResult
                 /\ tried' = Append(tried, servers_to_try[idx])
                 /\ idx' = (idx % Len(servers_to_try)) + 1
                 /\ attempt' = IF idx = Len(servers_to_try)
                                 THEN attempt + 1 ELSE attempt ]_vars

\* C6 witness: a call ended with the HTTPError of a 400, query text included,
\* after every endpoint was tried in every attempt.
C6_Witness ==
  /\ CallEnded
  /\ result.kind = "HTTPError"
  /\ result.status = "400"
  /\ result.has_query
  /\ Len(tried) = MaxRetries * Len(servers_to_try)
  /\ Len(servers_to_try) = 2

\* C7 as stated: with the first endpoint always answering 504 and the second
\* a valid 200, every call returns the second endpoint's data and records a
\* failure of the first.
C7_MockEveryCallCountsFailure ==
  mock /\ CallEnded =>
    /\ result = DataFrom(servers[2])
    /\ recorded[servers[1]] >= 1

\* C7 amended: every call returns the second endpoint's data without
\* raising; it records one failure of the first endpoint exactly when the
\* first endpoint stands before the second in that call's list (as in the
\* first call of a new ServerManager), and none when the rotation starts at
\* the second endpoint or the first is excluded.
C7_MockReturnsSecondEndpointData ==
  /\ (mock => result.kind \in { "none", "data" })
  /\ (mock /\ CallEnded =>
        /\ result = DataFrom(servers[2])
        /\ recorded[servers[2]] = 0
        /\ recorded[servers[1]] =
             IF servers_to_try[1] = servers[1] THEN 1 ELSE 0)

\* C7 witness: a call of the mock returned the second endpoint's data after
\* one recorded failure of the first.
C7_Witness ==
  /\ mock
  /\ CallEnded
  /\ result = DataFrom(servers[2])
  /\ tried = << servers[1], servers[2] >>
  /\ recorded[servers[1]] = 1

\* position of endpoint s in self.servers, 1-based
IndexOf(s) == CHOOSE i \in 1..Len(servers) : servers[i] = s

\* place of endpoint s in the rotation that starts at offset `index`
RotatedPlace(s, index) == (IndexOf(s) - 1 - index + Len(servers)) % Len(servers)

BelowThreshold == { s \in Range(servers) : server_failures[s] < MaxConsecutiveFailures }

\* a call of get_servers_for_query (the first step of query_overpass)
GetServersStep == fpc = "idle" /\ fpc' = "loop"

\* C8: when some endpoint is below the failure threshold, the call of
\* get_servers_for_query returns exactly the endpoints below the threshold,
\* each once, in rotated order, and leaves the counters as they are; in
\* particular an endpoint whose consecutive-failure count stands at
\* MaxConsecutiveFailures or more is not in the list when another endpoint
\* is below the threshold.
C8_ReturnsEndpointsBelowThreshold ==
  [][ GetServersStep /\ BelowThreshold # {} =>
        /\ Range(servers_to_try') = BelowThreshold
        /\ \A i, j \in 1..Len(servers_to_try') :
             i < j => RotatedPlace(servers_to_try'[i], server_index)
                        < RotatedPlace(servers_to_try'[j], server_index)
        /\ \A s \in Range(servers) :
             /\ server_failures[s] >= MaxConsecutiveFailures
             /\ \E t \in Range(servers) \ { s } : t \in BelowThreshold
             => s \notin Range(servers_to_try')
        /\ server_failures' = server_failures ]_vars

\* C8 witness: a call just returned a list without an endpoint whose count
\* stands at three recorded failures, another endpoint being in it.
C8_Witness ==
  /\ fpc = "loop"
  /\ tried = << >>
  /\ servers_to_try # << >>
  /\ \E s \in Range(servers) :
       /\ server_failures[s] = MaxConsecutiveFailures
       /\ s \notin Range(servers_to_try)

\* C9: a call of get_servers_for_query that finds every endpoint at or above
\* the threshold clears all failure counters and returns the full rotated
\* list; the list a call returns is never empty.
C9_AllExcludedResets ==
  /\ [](fpc = "loop" => servers_to_try # << >>)
  /\ [][ GetServersStep /\ BelowThreshold = {} =>
           /\ \A s \in Range(servers) : server_failures'[s] = 0
           /\ Len(servers_to_try') = Len(servers)
           /\ \A i \in 1..Len(servers) :
                servers_to_try'[i] =
                  servers[((server_index + i - 1) % Len(servers)) + 1] ]_vars

\* C9 witness: a call found both endpoints excluded, announced the reset and
\* returned both.
C9_Witness ==
  /\ fpc = "loop"
  /\ tried = << >>
  /\ reset_announced
  /\ Len(servers) = 2
  /\ Len(servers_to_try) = 2
  /\ \A s \in Range(servers) : server_failures[s] = 0

\* C10: a success sets the endpoint's failure counter to 0 and adds 1 to the
\* global success counter; when that reaches RequestsBeforeRetryFailed all
\* failure counters are cleared and the counter is back at 0, so the counter
\* stays below RequestsBeforeRetryFailed and no endpoint is excluded once it
\* wraps.
C10_SuccessCounterBelowThreshold ==
  /\ [](successful_requests_since_skip \in 0..(RequestsBeforeRetryFailed - 1))
  /\ [][ Request(OkResponse) =>
           IF successful_requests_since_skip + 1 >= RequestsBeforeRetryFailed
             THEN /\ successful_requests_since_skip' = 0
                  /\ \A s \in Range(servers) : server_failures'[s] = 0
             ELSE /\ successful_requests_since_skip' =
                       successful_requests_since_skip + 1
                  /\ server_failures' =
                       [ server_failures EXCEPT ![servers_to_try[idx]] = 0 ] ]_vars

\* C10 witness: a request just succeeded and the global counter is 0 again,
\* so it reached RequestsBeforeRetryFailed and every counter was cleared.
C10_Witness ==
  /\ CallEnded
  /\ result.kind = "data"
  /\ successful_requests_since_skip = 0
  /\ \A s \in Range(servers) : server_failures[s] = 0
  /\ Len(servers) = 2

\* the returned list leaves no endpoint out
Whole(list) == Len(list) = Len(servers)

\* the endpoints of a list that are in the set, in the order of the list
Restrict(list, set) == SelectSeq(list, LAMBDA s : s \in set)

\* C11: with the calls of get_servers_for_query counted from 0, call k
\* returns the endpoints ordered from servers[k mod n] on (those it leaves
\* out removed), and query_overpass makes exactly one such call; so, for
\* two or more endpoints, two calls in a row that leave no endpoint out
\* start at different endpoints, and in n calls in a row that leave no
\* endpoint out every endpoint comes first exactly once.
C11_RoundRobinRotation ==
  /\ [][ GetServersStep =>
           /\ calls < MaxCalls =>
                /\ server_index = calls % Len(servers)
                /\ servers_to_try' =
                     Restrict(Rotate(servers, calls % Len(servers)),
                              Range(servers_to_try'))
                /\ Whole(servers_to_try') =>
                     servers_to_try'[1] = servers[(calls % Len(servers)) + 1]
           /\ calls' = Min(calls + 1, MaxCalls) ]_vars
  /\ [][ calls' # calls => GetServersStep ]_vars
  /\ [] ( /\ \A i \in 1..(Len(last_lists) - 1) :
               ( Len(servers) >= 2 /\ Whole(last_lists[i])
                 /\ Whole(last_lists[i + 1]) )
               => last_lists[i][1] # last_lists[i + 1][1]
          /\ ( Len(last_lists) = Len(servers)
               /\ \A i \in 1..Len(last_lists) : Whole(last_lists[i]) )
             => \A s \in Range(servers) :
                  Cardinality({ i \in 1..Len(last_lists) :
                                  last_lists[i][1] = s }) = 1 )

\* C11 witness: the second call of a manager of two endpoints has just
\* returned the list that starts at the second endpoint, after a first call
\* that started at the first.
C11_Witness ==
  /\ fpc = "loop"
  /\ tried = << >>
  /\ calls = 2
  /\ Len(servers) = 2
  /\ last_lists = << servers, << servers[2], servers[1] >> >>

\* ------------------------------------------------- properties of the crawl

\* the bbox of the tile the next tile step handles
CurrentBbox == IF cpc = "gridded" THEN tiles[tile_idx + 1] ELSE options.bbox

\* a step that handles one tile: an iteration of the gridded loop, or the
\* single-grid path
TileStep ==
  \/ cpc = "gridded" /\ tile_idx' = tile_idx + 1
  \/ cpc = "single" /\ cpc' = "returned"

\* the step called extractor.extract
Fetched == fetch_calls' = fetch_calls + 1

\* C1: whenever extract raises a request error for a tile, the tile's row is
\* saved with success = false and the error text as error_message, and a
\* gridded crawl goes on with the next tile; in the gridded path and in the
\* single-grid path alike.
C1_RequestErrorMarksTileFailed ==
  [][ \A o \in RaisedRequestException :
        (GriddedTile(o) \/ SingleGrid(o)) /\ Fetched =>
          /\ CurrentBbox \in DOMAIN import_grids'
          /\ import_grids'[CurrentBbox].success = FALSE
          /\ import_grids'[CurrentBbox].error_message = << o.error >>
          /\ (cpc = "gridded" => cpc' = "gridded" /\ tile_idx' = tile_idx + 1)
    ]_vars

\* C1, the gridded path alone: there the claim holds, the row also getting
\* last_updated = now and both counts 0.
C1_GriddedPathMarksTileFailed ==
  [][ \A o \in RaisedRequestException :
        GriddedTile(o) /\ Fetched =>
          /\ import_grids'[CurrentBbox] =
               [ grid_number |-> tile_idx + 1, last_updated |-> << now >>,
                 reserves_created_count |-> 0, reserves_updated_count |-> 0,
                 success |-> FALSE, error_message |-> << o.error >> ]
          /\ cpc' = "gridded"
          /\ tile_idx' = tile_idx + 1 ]_vars

\* the skip rule as the claim states it, for the stored row of the tile
SkipRule(bbox) ==
  /\ bbox \in DOMAIN import_grids
  /\ \/ options.resume /\ import_grids[bbox].success
     \/ /\ options.min_age # << >>
        /\ import_grids[bbox].last_updated # << >>
        /\ now - import_grids[bbox].last_updated[1] <= options.min_age[1]

\* C2: a tile is skipped if and only if (resume and the stored tile has
\* success) or (min_age is set and the tile's last_updated is set and within
\* min_age hours of now), whatever resume is in the second case; a skipped
\* tile causes no extract call and leaves the stored tiles and reserves as
\* they are, and every other tile is fetched.
C2_SkipRule ==
  [][ TileStep =>
        IF SkipRule(CurrentBbox)
          THEN /\ output' \in { "Skipping tile", "Skipping single grid" }
               /\ fetch_calls' = fetch_calls
               /\ import_grids' = import_grids
               /\ nature_reserves' = nature_reserves
          ELSE /\ output' \notin { "Skipping tile", "Skipping single grid" }
               /\ Fetched ]_vars

\* C2 witness: a failed tile updated in the last hour was skipped by a run
\* without --resume, and no extract call was made.
C2_Witness ==
  /\ cpc = "gridded"
  /\ tile_idx = 1
  /\ output = "Skipping tile"
  /\ ~options.resume
  /\ options.min_age = << 1 >>
  /\ ~import_grids[tiles[1]].success
  /\ import_grids[tiles[1]].last_updated = << now - 1 >>
  /\ fetch_calls = 0

\* C3: whenever extract returns for a tile, the tile's row is saved with
\* success = true, no error_message, last_updated = now and the numbers of
\* reserves created and updated for this tile in this run, whatever the row
\* held before; the other rows stay as they are.
C3_SucceededTileSaved ==
  [][ \A o \in ReturnedReserves :
        (GriddedTile(o) \/ SingleGrid(o)) /\ Fetched =>
          LET ok      == { i \in 1..Len(o.reserves) : o.reserves[i].shape = "ok" }
              ids     == { o.reserves[i].id : i \in ok }
              created == Cardinality(ids \ nature_reserves)
              row     == import_grids'[CurrentBbox]
          IN  /\ row.success
              /\ row.error_message = << >>
              /\ row.last_updated = << now >>
              /\ row.reserves_created_count = created
              /\ row.reserves_updated_count = Cardinality(ok) - created
              /\ nature_reserves' = nature_reserves \cup ids
              /\ \A b \in DOMAIN import_grids \ { CurrentBbox } :
                   import_grids'[b] = import_grids[b] ]_vars

\* C3 witness: a tile that was handled before has just been saved as
\* succeeded, with one reserve counted as updated.
C3_Witness ==
  /\ cpc = "gridded"
  /\ tile_idx >= 1
  /\ output = "Grid saved"
  /\ now >= 1
  /\ import_grids[tiles[tile_idx]].success
  /\ import_grids[tiles[tile_idx]].error_message = << >>
  /\ import_grids[tiles[tile_idx]].last_updated = << now >>
  /\ import_grids[tiles[tile_idx]].reserves_updated_count = 1

\* --------------------------------- properties of process_tile_reserves

\* the records among the first k for which no bbox can be derived
WithoutBbox(k) ==
  { i \in 1..k : reserves_arg[i].shape = "no-geometry" }

\* the records among the first k whose processing raises
Raising(k) ==
  { i \in 1..k : reserves_arg[i].shape \in { "raises", "raises-after-upsert" } }

\* C12: a record whose processing raises adds one to the error counter,
\* leaves the other two counters alone and the loop goes on with the next
\* record; after k records created + updated + errors + (records without a
\* derivable bbox) = k, the errors being the records that raised; the call
\* returns after all n records, with the counters of
\* process_tile_reserves, and every record that neither raises nor lacks a
\* bbox is then in the table.
C12_ErrorSkipsOneRecord ==
  /\ [][ ( ProcessNext
           /\ reserves_arg[record_idx + 1].shape
                \in { "raises", "raises-after-upsert" } )
         => /\ counts'.errors = counts.errors + 1
            /\ counts'.created = counts.created
            /\ counts'.updated = counts.updated
            /\ record_idx' = record_idx + 1
            /\ ppc' = "loop" ]_vars
  /\ [] ( /\ counts.created + counts.updated + counts.errors
               + Cardinality(WithoutBbox(record_idx)) = record_idx
          /\ counts.errors = Cardinality(Raising(record_idx))
          /\ ppc = "returned" /\ reserves_arg # << >> =>
               /\ record_idx = Len(reserves_arg)
               /\ counts = ProcessTileReserves(reserves_arg, store_before)
               /\ \A i \in 1..Len(reserves_arg) :
                    reserves_arg[i].shape = "ok"
                    => reserves_arg[i].id \in counts.store )

\* C12 witness: a call returned whose first record raised, whose second was
\* created and whose third had no bbox.
C12_Witness ==
  /\ ppc = "returned"
  /\ Len(reserves_arg) = 3
  /\ reserves_arg[1].shape = "raises"
  /\ reserves_arg[2].shape = "ok"
  /\ reserves_arg[3].shape = "no-geometry"
  /\ counts.errors = 1
  /\ counts.created = 1
  /\ counts.updated = 0

\* ------------------------------------------- properties of the gridded run

\* how many tiles of the run so far ended as r
TilesWith(r) ==
  Cardinality({ i \in 1..Len(tile_results) : tile_results[i] = r })

\* C13: in a gridded run every tile of the split is handled once, in order,
\* and ends as exactly one of skipped, succeeded or failed; a tile whose
\* fetch raised is saved as failed (success false, an error message) and
\* the loop goes on with the next tile; a succeeded tile's row says
\* success and no error; the tiles of the split are distinct, so the rows
\* say so to the end of the run; `processed` is the number of succeeded
\* tiles, and the summary is written only after all tiles, when
\* failed = total - processed - skipped.
C13_EveryTileSkippedSucceededOrFailed ==
  /\ [][ \A outcome \in RaisedRequestException \cup RaisedException :
           ( GriddedTile(outcome) /\ fetch_calls' = fetch_calls + 1 )
           => /\ tile_results' = Append(tile_results, "failed")
              /\ cpc' = "gridded"
              /\ tile_idx' = tile_idx + 1 ]_vars
  /\ [] ( cpc \in { "gridded", "returned" } /\ tiles # << >> =>
            /\ Len(tile_results) = tile_idx
            /\ tile_idx <= Len(tiles)
            /\ \A i, j \in 1..Len(tiles) : i # j => tiles[i] # tiles[j]
            /\ processed = TilesWith("succeeded")
            /\ fetch_calls = TilesWith("succeeded") + TilesWith("failed")
            /\ \A i \in 1..tile_idx :
                 /\ tiles[i] \in DOMAIN import_grids
                 /\ tile_results[i] = "succeeded" =>
                      /\ import_grids[tiles[i]].success
                      /\ import_grids[tiles[i]].error_message = << >>
                      /\ import_grids[tiles[i]].grid_number = i
                 /\ tile_results[i] = "failed" =>
                      /\ ~import_grids[tiles[i]].success
                      /\ import_grids[tiles[i]].error_message # << >>
                      /\ import_grids[tiles[i]].grid_number = i
            /\ cpc = "returned" =>
                 /\ tile_idx = Len(tiles)
                 /\ Len(tiles) > 1
                 /\ TilesWith("failed")
                      = Len(tiles) - processed - TilesWith("skipped") )

\* C13 witness: a gridded run of two tiles has written its summary; the
\* fetch of the first tile raised and the second tile succeeded.
C13_Witness ==
  /\ cpc = "returned"
  /\ Len(tiles) = 2
  /\ tile_results = << "failed", "succeeded" >>
  /\ processed = 1
  /\ ~import_grids[tiles[1]].success
  /\ import_grids[tiles[2]].success

\* ------------------------------------------ properties of the grid table

\* C14: the table import_grids holds at most one row per bbox, whatever runs
\* were made; no step removes a row or changes the bbox of a row; a tile
\* step on a bbox that has a row inserts none (the row is reused and saved
\* in place), and one on a new bbox inserts exactly one.
C14_OneGridPerBbox ==
  /\ [] ( /\ \A i, j \in 1..Len(import_grid_rows) :
               import_grid_rows[i] = import_grid_rows[j] => i = j
          /\ Range(import_grid_rows) = DOMAIN import_grids )
  /\ [][ IsPrefix(import_grid_rows, import_grid_rows') ]_vars
  /\ [][ TileStep =>
           IF CurrentBbox \in Range(import_grid_rows)
             THEN import_grid_rows' = import_grid_rows
             ELSE import_grid_rows' = Append(import_grid_rows, CurrentBbox)
       ]_vars

\* C14 witness: a run on one unsplit bbox has fetched and saved the row that
\* an earlier gridded run of two tiles created for the same bbox.
C14_Witness ==
  /\ cpc = "returned"
  /\ tiles = << >>
  /\ fetch_calls = 1
  /\ Len(import_grid_rows) = 2
  /\ import_grid_rows[1] = options.bbox
  /\ import_grids[options.bbox].grid_number = 1
  /\ import_grids[options.bbox].last_updated = << now >>
  /\ now > 0

\* ------------------------------------------------ properties of the tiler

\* the unit squares of a box, each named by its south-west corner
Cells(box) == (box[1]..(box[3] - 1)) \X (box[2]..(box[4] - 1))

\* the box lies inside the outer box, and is a box
Inside(box, outer) ==
  /\ outer[1] <= box[1] /\ box[1] <= box[3] /\ box[3] <= outer[3]
  /\ outer[2] <= box[2] /\ box[2] <= box[4] /\ box[4] <= outer[4]

\* the two boxes have at most an edge in common
EdgeOnly(a, b) ==
  \/ a[3] <= b[1] \/ b[3] <= a[1]
  \/ a[4] <= b[2] \/ b[4] <= a[2]

\* C15: the tiles returned by split_bbox_into_tiles(B, K) lie inside B,
\* every unit square of B lies in exactly one tile (the tiles cover B and no
\* area is covered twice), and two tiles at different places of the list
\* have at most an edge in common.
C15_TilesPartitionBbox ==
  tpc = "returned" /\ bbox_arg \in TilerBBoxes =>
    /\ \A i \in 1..Len(tiles_result) : Inside(tiles_result[i], bbox_arg)
    /\ \A c \in Cells(bbox_arg) :
         Cardinality({ i \in 1..Len(tiles_result) :
                         c \in Cells(tiles_result[i]) }) = 1
    /\ \A i, j \in 1..Len(tiles_result) :
         i # j => EdgeOnly(tiles_result[i], tiles_result[j])

\* C15 witness: a box three units wide and high, above 60 degrees of
\* latitude, was split with tiles of 1 km: two columns, the second clipped,
\* and three rows.
C15_Witness ==
  /\ tpc = "returned"
  /\ bbox_arg = << 1, 6660, 4, 6663 >>
  /\ tile_size_arg = << 1 >>
  /\ Len(tiles_result) = 6
  /\ tiles_result[2] = << 3, 6660, 4, 6661 >>

\* C16: whenever should_split_bbox(B, K) returned true,
\* split_bbox_into_tiles(B, K) returned more than one tile.
C16_SplitYieldsSeveralTiles ==
  tpc = "returned" /\ split_result => Len(tiles_result) > 1

\* The same for the boxes whose two spans are positive; a box with an empty
\* span gets no tile at all.
C16_PositiveSpansSplitYieldsSeveralTiles ==
  tpc = "returned" /\ split_result =>
    IF bbox_arg[1] < bbox_arg[3] /\ bbox_arg[2] < bbox_arg[4]
      THEN Len(tiles_result) > 1
      ELSE tiles_result = << >>

\* -------------------------------------------- properties of geometry_utils

\* The rings of the geometries are rectangles: a point that is on no edge is
\* inside the ring exactly when it is strictly between the least and the
\* greatest coordinates of the ring.
InsideRectangle(lon, lat, ring) ==
  /\ \E i, j \in 1..Len(ring) : ring[i][1] < lon /\ lon < ring[j][1]
  /\ \E i, j \in 1..Len(ring) : ring[i][2] < lat /\ lat < ring[j][2]

\* inside the outer ring and inside none of the hole rings
ContainedIn(lon, lat, rings) ==
  /\ InsideRectangle(lon, lat, rings[1])
  /\ \A k \in 2..Len(rings) : ~InsideRectangle(lon, lat, rings[k])

\* C17: point_in_geojson_geometry is true for a Polygon exactly when the
\* point is inside the outer ring and inside no hole ring, and for a
\* MultiPolygon exactly when one of its polygons contains the point by that
\* rule; the square of the test contains (5.20, 52.10) and not (5.30, 52.10).
C17_PointInGeometry ==
  gpc = "returned" /\ geom_arg # NoGeometry =>
    /\ geom_arg.type = "Polygon" =>
         inside_result = ContainedIn(lon_arg, lat_arg, geom_arg.coordinates)
    /\ geom_arg.type = "MultiPolygon" =>
         inside_result =
           \E k \in 1..Len(geom_arg.coordinates) :
             ContainedIn(lon_arg, lat_arg, geom_arg.coordinates[k])
    /\ ( geom_arg.type = "Polygon" /\ geom_arg.coordinates = << TestSquare >>
         /\ lat_arg = 5210 ) =>
         /\ lon_arg = 520 => inside_result
         /\ lon_arg = 530 => ~inside_result

\* C17 witness: a point inside the outer ring of a polygon and inside its
\* second hole was reported not contained.
C17_Witness ==
  /\ gpc = "returned"
  /\ geom_arg.type = "Polygon"
  /\ Len(geom_arg.coordinates) = 3
  /\ InsideRectangle(lon_arg, lat_arg, geom_arg.coordinates[1])
  /\ ~InsideRectangle(lon_arg, lat_arg, geom_arg.coordinates[2])
  /\ InsideRectangle(lon_arg, lat_arg, geom_arg.coordinates[3])
  /\ ~inside_result

\* C17 witness of the MultiPolygon rule: the point is in a hole of the
\* first polygon and inside the second polygon, and was reported contained.
C17_WitnessMultiPolygon ==
  /\ gpc = "returned"
  /\ geom_arg.type = "MultiPolygon"
  /\ Len(geom_arg.coordinates) = 2
  /\ InsideRectangle(lon_arg, lat_arg, geom_arg.coordinates[1][1])
  /\ ~ContainedIn(lon_arg, lat_arg, geom_arg.coordinates[1])
  /\ ContainedIn(lon_arg, lat_arg, geom_arg.coordinates[2])
  /\ inside_result

\* ---------------------------------------------- properties of the point query
\* What the caller asked for, said of one row: the source given, the
\* operator given (a parameter that is no number asks for nothing) and the
\* class set of the protection level given.
SatisfiesFilters(r) ==
  /\ params.source # << >> => r.source = params.source[1]
  /\ params.operator = << "1" >> => 1 \in r.operators
  /\ params.protection_level = << "strict" >>
       => r.protect_class \in { << "1a" >>, << "1b" >>, << "1" >> }
  /\ params.protection_level = << "other" >>
       => r.protect_class \in { << "7" >>, << "99" >> }

BboxContainsPoint(r) ==
  /\ r.bbox[1] <= params.lon /\ params.lon <= r.bbox[3]
  /\ r.bbox[2] <= params.lat /\ params.lat <= r.bbox[4]

GeometryContainsPoint(r) ==
  /\ r.geometry # << >>
  /\ PointInGeojsonGeometry(params.lon, params.lat, r.geometry[1])

\* C18: at_point returns exactly the stored rows that satisfy the filters of
\* the caller, whose stored bbox contains the point with inclusive bounds
\* and whose geometry contains the point, each once; a row without geometry
\* or whose geometry does not contain the point is never returned.
C18_AtPointReturnsExactlyTheContainingRows ==
  [](qpc = "returned" =>
       /\ Range(response)
            = { r \in Range(reserve_rows) :
                  SatisfiesFilters(r) /\ BboxContainsPoint(r)
                    /\ GeometryContainsPoint(r) }
       /\ \A i, j \in 1..Len(response) : response[i] = response[j] => i = j
       /\ \A r \in Range(response) : GeometryContainsPoint(r))

\* two overlapping rows are returned together, one of them with the point on
\* the edge of its stored bbox
C18_Witness ==
  /\ qpc = "returned"
  /\ Len(response) = 2
  /\ \E r \in Range(response) : r.bbox[1] = params.lon /\ r.bbox[2] = params.lat

\* a row that passes the bbox query and the filters is left out, for it has
\* no geometry or its geometry does not contain the point
C18_WitnessLeftOut ==
  /\ qpc = "returned"
  /\ params.source # << >>
  /\ Len(response) = 1
  /\ Len(reserves_bbox) = 2

\* C19: when the bbox query of a point query returns no row, a stored row
\* whose geometry contains the point (and which satisfies the filters of the
\* caller) is still returned, whatever its stored bbox; every table here is
\* far within a scan cap.
C19_FallbackScanReturnsContainingRows ==
  [](( qpc = "returned" /\ reserves_bbox = << >> ) =>
       \A r \in Range(reserve_rows) :
         ( SatisfiesFilters(r) /\ GeometryContainsPoint(r) )
           => r \in Range(response))

\* what at_point does instead: without a row from the bbox query the response
\* is empty
C19_NoCandidateNoMatch ==
  [](( qpc = "returned" /\ reserves_bbox = << >> ) => response = << >>)

\* The planar area of a geometry of rectangles, said from the sides of the
\* rectangles: outer ring minus inner rings, summed over the polygons,
\* floored at 0.
Extent(ring, k) ==
  LET cs == { ring[i][k] : i \in 1..Len(ring) }
  IN  ( CHOOSE hi \in cs : \A c \in cs : c <= hi )
        - ( CHOOSE lo \in cs : \A c \in cs : lo <= c )
RectangleArea(ring) == Extent(ring, 1) * Extent(ring, 2)
RECURSIVE SumOfRectangles(_)
SumOfRectangles(rings) ==
  IF rings = << >> THEN 0
  ELSE RectangleArea(Head(rings)) + SumOfRectangles(Tail(rings))
OuterMinusHoles(rings) == RectangleArea(Head(rings)) - SumOfRectangles(Tail(rings))
RECURSIVE SumOfPolygons(_)
SumOfPolygons(polys) ==
  IF polys = << >> THEN 0
  ELSE OuterMinusHoles(Head(polys)) + SumOfPolygons(Tail(polys))
PlanarArea(geom) ==
  IF geom.type = "Polygon" THEN Max(0, OuterMinusHoles(geom.coordinates))
  ELSE Max(0, SumOfPolygons(geom.coordinates))

\* C20: the list at_point returns is in the order of non-decreasing planar
\* area of the geometries matched, the area of a polygon being that of its
\* outer ring less those of its holes, floored at 0 (the key of the sort is
\* that area, doubled here).
C20_ResponseOrderedByArea ==
  [](qpc = "returned" =>
       /\ \A i, j \in 1..Len(response) :
            i < j => PlanarArea(response[i].geometry[1])
                       <= PlanarArea(response[j].geometry[1])
       /\ \A i \in 1..Len(response) :
            GeojsonGeometryArea(GeometryFromReserve(response[i])[1])
              = 2 * PlanarArea(response[i].geometry[1]))

\* two matches of different areas come back in the reverse of the order of
\* the table, the smaller first
C20_Witness ==
  /\ qpc = "returned"
  /\ Len(response) = 2
  /\ response[1] = reserve_rows[2]
  /\ response[2] = reserve_rows[1]
  /\ PlanarArea(response[1].geometry[1]) < PlanarArea(response[2].geometry[1])

\* a match whose holes are larger than its outer ring has area 0 and comes
\* first
C20_WitnessFloored ==
  /\ qpc = "returned"
  /\ Len(response) = 2
  /\ OuterMinusHoles(response[1].geometry[1].coordinates) < 0
  /\ response[1].geometry[1].type = "Polygon"
  /\ response[1] = reserve_rows[2]

\* ------------------------------------- properties of the relation geometry
\* The relation of the call and its siblings.
TheRelation == data_elements[1]
TheMembers == TheRelation.members

\* The sibling way elements of the batch that carry a ring for ref.
SiblingRings(ref) ==
  { e.geometry[1] : e \in { x \in Range(data_elements) :
                              /\ x.type = "way" /\ x.id = << ref >>
                              /\ x.geometry # << >> /\ x.geometry[1] # << >> } }

\* The ring member m resolves to, as a set: the ring embedded in it, else
\* the ring of the sibling way of its ref; empty when there is none.
RingOf(m) ==
  IF m.type # "way" \/ m.ref = << >> THEN {}
  ELSE IF m.geometry # << >> /\ m.geometry[1] # << >> THEN { m.geometry[1] }
  ELSE SiblingRings(m.ref[1])

\* The rings of the members of a role that resolve, in member order.
RECURSIVE ResolvedFrom(_, _)
ResolvedFrom(role, i) ==
  IF i > Len(TheMembers) THEN << >>
  ELSE LET m == TheMembers[i]
       IN  ( IF m.role = role /\ RingOf(m) # {}
               THEN << CHOOSE ring \in RingOf(m) : TRUE >> ELSE << >> )
           \o ResolvedFrom(role, i + 1)
OuterResolved == ResolvedFrom("outer", 1)
InnerResolved == ResolvedFrom("inner", 1)

\* the first rings of the polygons of a geometry, and the rings after them
OutersOf(geometry) == [ k \in 1..Len(geometry.polygons) |-> geometry.polygons[k][1] ]
RECURSIVE HolesFrom(_, _)
HolesFrom(geometry, k) ==
  IF k > Len(geometry.polygons) THEN << >>
  ELSE Tail(geometry.polygons[k]) \o HolesFrom(geometry, k + 1)

\* C21: the ring of an outer or inner way member is the one embedded in the
\* member, else that of the sibling way of its ref; a member without ring is
\* passed over and the other members still count; the geometry is None
\* exactly when no outer member resolves, and then the relation is left out
\* of the reserves while the other elements are still parsed.
C21_UnresolvedMembersAreSkipped ==
  [](epc = "returned" =>
       /\ relation_geometry = << >> <=> OuterResolved = << >>
       /\ relation_geometry # << >>
            => OutersOf(relation_geometry[1]) = OuterResolved
       /\ ( relation_geometry # << >> /\ Len(OuterResolved) = 1 )
            => HolesFrom(relation_geometry[1], 1) = InnerResolved
       /\ ( \E r \in Range(parsed_reserves) : r.id = "relation_7" )
            <=> OuterResolved # << >>
       /\ \A e \in Range(data_elements) :
            ( e.type = "way" /\ e.tags /\ e.geometry # << >> )
              => \E r \in Range(parsed_reserves) :
                   r.id = "way_" \o ToString(e.id[1]))

\* an outer member takes its ring from the sibling way, another member has no
\* ring anywhere, and a geometry is still returned
C21_Witness ==
  /\ epc = "returned"
  /\ relation_geometry # << >>
  /\ 21 \in UNION { Range(OutersOf(relation_geometry[1])[k]) :
                      k \in 1..Len(relation_geometry[1].polygons) }
  /\ \E m \in Range(TheMembers) :
       m.type = "way" /\ m.ref # << >> /\ m.role = "outer" /\ RingOf(m) = {}

\* no outer member resolves although an inner one does: the relation is
\* dropped and a sibling way is still parsed
C21_WitnessDropped ==
  /\ epc = "returned"
  /\ relation_geometry = << >>
  /\ InnerResolved # << >>
  /\ \E r \in Range(parsed_reserves) : r.id = "way_1"

\* C22: the shape of the geometry follows the rings resolved: one outer ring
\* and no inner ring give that ring itself; one outer ring with inner rings
\* gives one polygon, the outer ring first and the inner rings after it in
\* member order; two or more outer rings give one polygon per outer ring in
\* member order, and with no inner ring each polygon is its outer ring alone.
C22_ShapeFollowsResolvedRings ==
  [](epc = "returned" =>
       /\ ( Len(OuterResolved) = 1 /\ InnerResolved = << >> )
            => relation_geometry
                 = << [ nesting |-> 1, polygons |-> << << OuterResolved[1] >> >> ] >>
       /\ ( Len(OuterResolved) = 1 /\ InnerResolved # << >> )
            => relation_geometry
                 = << [ nesting |-> 2,
                        polygons |-> << << OuterResolved[1] >> \o InnerResolved >> ] >>
       /\ Len(OuterResolved) >= 2
            => /\ relation_geometry # << >>
               /\ relation_geometry[1].nesting = 3
               /\ OutersOf(relation_geometry[1]) = OuterResolved
       /\ ( Len(OuterResolved) >= 2 /\ InnerResolved = << >> )
            => relation_geometry[1].polygons
                 = [ k \in 1..Len(OuterResolved) |-> << OuterResolved[k] >> ])

\* two outer ways of different rings and no inner way: both rings are in the
\* geometry
C22_Witness ==
  /\ epc = "returned"
  /\ Len(OuterResolved) = 2
  /\ OuterResolved[1] # OuterResolved[2]
  /\ InnerResolved = << >>
  /\ relation_geometry[1].polygons = << << OuterResolved[1] >>, << OuterResolved[2] >> >>

\* one outer way with two inner ways
C22_WitnessHoles ==
  /\ epc = "returned"
  /\ Len(OuterResolved) = 1
  /\ Len(InnerResolved) = 2
  /\ relation_geometry[1].nesting = 2

\* C26: with two or more outer rings and at least one inner ring resolved,
\* every inner ring resolved is a hole of one of the polygons of the
\* geometry.
C26_NoInnerRingIsDropped ==
  [](( epc = "returned" /\ Len(OuterResolved) >= 2 /\ InnerResolved # << >> ) =>
       /\ relation_geometry # << >>
       /\ Range(InnerResolved) \subseteq Range(HolesFrom(relation_geometry[1], 1)))

\* what the code returns there: the outer rings alone
C26_InnerRingsDroppedWithSeveralOuters ==
  [](( epc = "returned" /\ Len(OuterResolved) >= 2 ) =>
       HolesFrom(relation_geometry[1], 1) = << >>)

C23_ShapefileImportKeepsCrawlRows ==
  [][ \A row \in table :
        ( written_by[row.id] = "osm" /\ last_import' = "wdpa" )
          => row \in table' ]_vars

\* the other half, for the ids parse_elements makes of numeric element ids
C23_CrawlOfNumericIdsKeepsShapefileRows ==
  [][ ( last_import' = "osm" /\ \A r \in Range(batch') : r.id = "way_1" )
        => \A row \in table : written_by[row.id] = "wdpa" => row \in table' ]_vars

\* C24: the crawl upserts by id: a record whose id is in the table updates
\* that row and is counted as updated, any other record with a geometry
\* makes a new row and is counted as created; no two rows have the same id;
\* the same records imported a second time leave the table as it is, none
\* counted as created.
C24_UpsertById ==
  /\ [](\A r1, r2 \in table : r1.id = r2.id => r1 = r2)
  /\ [][ last_import' = "osm" =>
             LET reserves == batch'
                 ids == { r.id : r \in { x \in Range(reserves) : x.has_geometry } }
                 old == { row.id : row \in table }
                 upserts == Cardinality({ i \in 1..Len(reserves) :
                                           reserves[i].has_geometry })
             IN  /\ { row.id : row \in table' } = old \cup ids
                 /\ import_counts'.created = Cardinality(ids \ old)
                 /\ import_counts'.updated = upserts - Cardinality(ids \ old)
                 /\ \A row \in table : row.id \notin ids => row \in table'
                 /\ \A row \in table' :
                      row.id \in ids =>
                        \E i \in 1..Len(reserves) :
                          /\ reserves[i].id = row.id /\ reserves[i].has_geometry
                          /\ reserves[i].data = row.data
                          /\ \A j \in ( i + 1 )..Len(reserves) :
                               ~( reserves[j].id = row.id /\ reserves[j].has_geometry )
                 /\ ( last_import = "osm" /\ batch = reserves )
                      => ( table' = table /\ import_counts'.created = 0 ) ]_vars

\* one import created a row and updated another that was there
C24_Witness ==
  /\ last_import = "osm"
  /\ import_counts.created = 1
  /\ import_counts.updated = 1
  /\ Cardinality(table) = 2

\* ------------------------------------------------- properties of the waits
\* The attempt (from 0) and the endpoint (from 1) of the k-th post of a call.
AttemptOf(k) == ( k - 1 ) \div Len(servers_to_try)
EndpointOf(k) == ( ( k - 1 ) % Len(servers_to_try) ) + 1

\* C25: within a call the backoff is slept between attempts, that is before
\* the first post of every attempt after the first and only there, with
\* min(base * 2^a, cap) before the jitter; the short delay is slept before
\* the post to every endpoint but the first of an attempt, in every attempt.
C25_BackoffBetweenAttemptsDelayBetweenEndpoints ==
  [](\A k \in 1..Len(slept) :
       /\ ( AttemptOf(k) > 0 /\ EndpointOf(k) = 1 )
            => slept[k] = [ kind |-> "backoff",
                            least |-> Min(BaseDelay * 2 ^ AttemptOf(k), MaxDelay) ]
       /\ EndpointOf(k) > 1
            => slept[k] = [ kind |-> "delay", least |-> EndpointDelay ]
       /\ ( AttemptOf(k) = 0 /\ EndpointOf(k) = 1 )
            => slept[k].kind = "none")

\* what query_overpass does: the backoff before every post of an attempt
\* after the first, the short delay between the endpoints of the first
\* attempt only
C25_BackoffBeforeEveryPostOfLaterAttempts ==
  [](\A k \in 1..Len(slept) :
       /\ AttemptOf(k) > 0
            => slept[k] = [ kind |-> "backoff",
                            least |-> Min(BaseDelay * 2 ^ AttemptOf(k), MaxDelay) ]
       /\ ( AttemptOf(k) = 0 /\ EndpointOf(k) > 1 )
            => slept[k] = [ kind |-> "delay", least |-> EndpointDelay ]
       /\ ( AttemptOf(k) = 0 /\ EndpointOf(k) = 1 )
            => slept[k].kind = "none")

\* ------------------------------------------- properties of concurrent runs
\* C27: a tile is claimed before it is processed, so two runs never fetch
\* and upsert the same tile at the same time.
C27_NoTileProcessedByTwoRuns ==
  [](\A w1, w2 \in Workers :
       ( w1 # w2 /\ wpc[w1] = "processing" /\ wpc[w2] = "processing" )
         => wtile[w1] # wtile[w2])

\* C27, the write: a run saves the row of a tile only if nobody wrote the
\* row since the run read it, so no write is lost to a stale result.
C27_NoStaleTileWrite ==
  [][ \A w \in Workers :
        ( wpc[w] = "processing" /\ wpc'[w] = "next" )
          => grid_table[WorkerTiles[wtile[w] + 1]] = wgrid[w] ]_vars

\* ------------------------------------------------ properties of the tile rows
\* C28: every row of import_grids is in one of three shapes: success with
\* no error message and a time of update; never processed (no time of
\* update), not a success and no error message; failed with a time of
\* update and an error message.
C28_GridRowsAreWellFormed ==
  \A bbox \in DOMAIN import_grids :
    LET grid == import_grids[bbox]
    IN  /\ grid.success
          => ( grid.error_message = << >> /\ grid.last_updated # << >> )
        /\ grid.last_updated = << >>
          => ( ~grid.success /\ grid.error_message = << >> )
        /\ ( ~grid.success /\ grid.last_updated # << >> )
          => grid.error_message # << >>

\* a tile that failed and a tile that succeeded are in the table
C28_Witness ==
  /\ \E bbox \in DOMAIN import_grids :
       /\ ~import_grids[bbox].success
       /\ import_grids[bbox].last_updated # << >>
       /\ import_grids[bbox].error_message # << >>
  /\ \E bbox \in DOMAIN import_grids :
       /\ import_grids[bbox].success
       /\ import_grids[bbox].last_updated # << >>

\* ------------------------------------------- properties of the stored bbox
\* C29: for a row whose bbox was derived from its geometry at import, a
\* point the geometry contains is a point the bbox contains, so the bbox
\* filter of at_point never leaves out a row whose geometry contains the
\* point.
C29_BboxFilterKeepsContainingRows ==
  ( bpc = "asked" /\ in_geometry ) => in_bbox

\* some row's geometry contains the point, on the edge of its bbox
C29_Witness ==
  /\ bpc = "asked"
  /\ in_geometry
  /\ in_bbox
  /\ stored_bbox[1][1] = point_arg[1]

\* a row past the bbox filter whose geometry does not contain the point
C29_WitnessBboxOnly == bpc = "asked" /\ in_bbox /\ ~in_geometry

C30_SplitReturnsWithPositiveSize ==
  ( split_size = << >> \/ split_size[1] > 0 )
    => <>( spc = "returned"
           /\ split_tiles = SplitBboxIntoTiles(split_bbox, split_size) )

\* C30, the other sizes: with a tile size of zero or below, an iteration
\* of the inner loop brings current_lon no closer to max_lon.
C30_NoProgressWithoutPositiveSize ==
  [][ ( split_size # << >> /\ split_size[1] <= 0 /\ split_tiles' # split_tiles )
        => split_lon' <= split_lon ]_vars

====
